---- MODULE Spec2Model ----
(***************************************************************************)
(* Model of the reinforcement-learning subsystem of Cyber-X:               *)
(*   HoneypotEnvSimulated (src/server/rl/honeypot_env_sim.py) and          *)
(*   HoneypotEnv          (src/server/rl/honeypot_env.py), the two         *)
(*   environments;                                                         *)
(*   SelfPlayTrainer      (src/server/rl/trainer.py), the orchestrator,    *)
(*   and the HTTP handlers that start and stop it (src/server/rl/api.py);  *)
(*   set_best_model       (src/server/rl/set_best_model.py), RLConfig      *)
(*   (config_loader.py) and the agents' load (attacker_agent.py,           *)
(*   defender_agent.py): the checkpoint files and the "best" pointers;     *)
(*   LLMAssistant and AttackerAgent.predict (attacker_agent.py): the       *)
(*   advisor the attacker consults, and the /api/rl/evaluate handler.      *)
(*                                                                         *)
(* Numbers.  The code computes with floats; the model is exact:            *)
(*   rewards are integers in units of 1/60   (Rw(t) is t tenths),          *)
(*   detection scores are integers in units of 1/300 (Sc(h) is h           *)
(*   hundredths), privilege_level is kept in tenths (0, 5, 10).            *)
(* 1/300 is the coarsest unit holding commands/50, failed/20, files/30 and *)
(* count/10; 1/60 holds 0.5, 0.1 x files and 10 x score.                   *)
(*                                                                         *)
(* Randomness and the outside world (random.random(), the SSH session, the *)
(* Elasticsearch answers) are inputs of a step, passed as the record rnd.  *)
(***************************************************************************)
EXTENDS Integers, FiniteSets, Sequences, TLC

VARIABLES variant, mode, max_steps, current_step, attack_state, ssh_client,
          defense_state, result, everTerminated, cumulative,
          \* api.py globals, the frames of the orchestrator's training
          \* calls, the SelfPlayTrainer objects, the last HTTP reply, and
          \* the runs that were active when a stop request was accepted
          is_training, trainer, runs, trainers, response, stop_accepted,
          \* the /api/rl/evaluate request being served, and what the last
          \* status, history or live-metrics request returned
          evaluation, query,
          \* the model directory, RLConfig.config in memory and on disk,
          \* each agent's policy, and the outcome of the last file operation
          fs, config, config_file, model, outcome,
          \* config['llm'], the AttackerAgent objects of the process with
          \* their LLMAssistant, the last predict call, and the frame of an
          \* agent's evaluate call
          llm_config, agents, prediction, eval_call

envVars == <<variant, mode, max_steps, current_step, attack_state, ssh_client,
             defense_state, result, everTerminated, cumulative>>

orchVars == <<is_training, trainer, runs, trainers, response, stop_accepted,
              evaluation, query>>

storeVars == <<fs, config, config_file, model, outcome>>

advVars == <<llm_config, agents, prediction, eval_call>>

vars == <<envVars, orchVars, storeVars, advVars>>

(***************************************************************************)
(* Bounds of the exploration.                                              *)
(***************************************************************************)
\* max_steps given to the constructor in the general specification
MaxSteps == 3
\* step calls explored per episode (the code accepts calls after the end)
StepCap == 4
\* step calls per episode in the deep specification: the live attacker needs
\* nine steps to push its detection score past 0.8
DeepStepCap == 9

\* default of the constructor parameter max_steps
DefaultMaxSteps == 100

Min(a, b) == IF a < b THEN a ELSE b

\* a reward of t tenths, in units of 1/60
Rw(t) == 6 * t
\* a detection score of h hundredths, in units of 1/300
Sc(h) == 3 * h

PrivNone == 0
PrivUser == 5
PrivRoot == 10

Variants == {"sim", "live"}
Modes == {"attacker", "defender"}

\* action indices a caller can pass: the ten actions and indices outside
ActionInputs == (0..9) \cup {-11, -1, 10}

(***************************************************************************)
(* Initial values of the per-episode state.                                *)
(***************************************************************************)
\* the live variant has no detection_score key: the field stays 0 there
InitAttackState ==
    [connection_active |-> FALSE, commands_executed |-> 0,
     files_accessed |-> 0, privilege_level |-> PrivNone,
     failed_attempts |-> 0, successful_exploits |-> 0,
     detection_score |-> 0]

\* one record for both variants: the simulated variant uses the first five
\* fields, the live variant ips_blocked and the last three
ZeroDefenseState ==
    [active_connections |-> 0, failed_logins |-> 0,
     suspicious_commands |-> 0, ips_blocked |-> 0, attacks_detected |-> 0,
     alerts_triggered |-> 0, false_positives |-> 0, attacks_mitigated |-> 0]

(***************************************************************************)
(* Inputs of one call.                                                     *)
(*   succ    outcome of the branch's random draw / of the live helper      *)
(*   attack  attack_happening (simulated defender)                         *)
(*   n       a count: files, users, ports or attacker IPs found            *)
(*   bonus   random.uniform(0, 3) of the simulated enumerate, reward units *)
(*   fc      failed events Elasticsearch reports (detection score, live)   *)
(*   sev     attack severity in thousandths (live defender)                *)
(*   fault   the helper called by the branch raises                        *)
(*   inc1, inc2   randint draws added to failed_logins, suspicious_commands*)
(*   ac, fl, sc   randint draws of the simulated defender's reset          *)
(***************************************************************************)
NoRnd ==
    [succ |-> FALSE, attack |-> FALSE, n |-> 0, bonus |-> 0, fc |-> 0,
     sev |-> 0, fault |-> FALSE, inc1 |-> 1, inc2 |-> 0,
     ac |-> 1, fl |-> 0, sc |-> 0]

FailedCounts == {0, 2}

\* attack: the defender's step met an attack (attack_happening in the
\* simulated variant, what the branch's telemetry helper found in the live
\* one)
NoInfo ==
    [detected |-> FALSE, terminated |-> FALSE, error |-> FALSE,
     scored |-> FALSE, score |-> 0, fault |-> FALSE, attack |-> FALSE]

(***************************************************************************)
(* HoneypotEnv._calculate_detection_score                                  *)
(***************************************************************************)
CalculateDetectionScore(st, fc) ==
    Min(Min(6 * st.commands_executed, Sc(30))
        + Min(15 * st.failed_attempts, Sc(30))
        + Min(10 * st.files_accessed, Sc(20))
        + Min(30 * fc, Sc(20)),
        Sc(100))


(***************************************************************************)
(* HoneypotEnvSimulated._execute_attacker_action_sim, the action branches  *)
(* (lines 107-190): the state after the branch and the reward it sets.     *)
(* An index that matches no branch leaves reward at 0.0.                   *)
(***************************************************************************)
\* a brute force that opens the connection and leaves the privilege alone
BruteForceOpensUnprivileged(st) ==
    [st EXCEPT !.connection_active = TRUE,
               !.successful_exploits = @ + 1]

\* the success branch of action 0 (sim lines 109-111, live lines 213-215):
\* the connection is opened together with user privilege
BruteForceOpens(st) ==
    [st EXCEPT !.connection_active = TRUE,
               !.privilege_level = PrivUser,
               !.successful_exploits = @ + 1]

\* a wait that feeds the detection score like the other actions
WaitBranchSimDetected(st) ==
    [st |-> [st EXCEPT !.detection_score = @ + Sc(10)], base |-> Rw(-5)]

\* the wait branch (lines 189-190)
WaitBranchSim(st) == [st |-> st, base |-> Rw(-5)]

\* a refusal that still feeds the detection score
NotConnectedSimDetected(st) ==
    [st |-> [st EXCEPT !.detection_score = @ + Sc(10)], base |-> Rw(-50)]

\* the else branch of actions 1, 2, 3, 7 and 8 (lines 126, 134, 146, 180,
\* 187): connection_active is false
NotConnectedSim(st) == [st |-> st, base |-> Rw(-50)]

AttackerBranchSim(st, a, r) ==
    CASE a = 0 ->
           IF r.succ
           THEN [st |-> [BruteForceOpens(st) EXCEPT
                                   !.detection_score = @ + Sc(10)],
                 base |-> Rw(200)]
           ELSE [st |-> [st EXCEPT !.failed_attempts = @ + 1,
                                   !.detection_score = @ + Sc(10)],
                 base |-> Rw(-20)]
      [] a = 1 ->
           IF st.connection_active
           THEN [st |-> [st EXCEPT !.commands_executed = @ + 3],
                 base |-> Rw(50) + r.bonus]
           ELSE NotConnectedSim(st)
      [] a = 2 ->
           IF st.connection_active
           THEN [st |-> [st EXCEPT !.commands_executed = @ + 5,
                                   !.detection_score = @ + Sc(5)],
                 base |-> Rw(80)]
           ELSE NotConnectedSim(st)
      [] a = 3 ->
           IF st.connection_active
           THEN IF r.succ
                THEN [st |-> [st EXCEPT !.files_accessed = @ + 1,
                                        !.successful_exploits = @ + 1,
                                        !.detection_score = @ + Sc(30)],
                      base |-> Rw(150)]
                ELSE [st |-> st, base |-> Rw(-30)]
           ELSE NotConnectedSim(st)
      [] a = 4 ->
           IF st.connection_active /\ r.succ
           THEN [st |-> [st EXCEPT !.privilege_level = PrivRoot,
                                   !.successful_exploits = @ + 1,
                                   !.detection_score = @ + Sc(40)],
                 base |-> Rw(300)]
           ELSE [st |-> [st EXCEPT !.detection_score = @ + Sc(20)],
                 base |-> Rw(-40)]
      [] a = 5 ->
           IF st.privilege_level >= PrivUser
           THEN [st |-> [st EXCEPT !.detection_score = @ + Sc(25)],
                 base |-> IF r.succ THEN Rw(250) ELSE Rw(-30)]
           ELSE [st |-> st, base |-> Rw(-50)]
      [] a = 6 ->
           IF st.privilege_level >= PrivUser
           THEN [st |-> [st EXCEPT !.files_accessed = @ + 1,
                                   !.detection_score = @ + Sc(15)],
                 base |-> IF r.succ THEN Rw(180) ELSE Rw(-20)]
           ELSE [st |-> st, base |-> Rw(-50)]
      [] a = 7 ->
           IF st.connection_active
           THEN [st |-> [st EXCEPT !.files_accessed = @ + r.n,
                                   !.detection_score = @ + Sc(20)],
                 base |-> Rw(120) + 30 * r.n]
           ELSE NotConnectedSim(st)
      [] a = 8 ->
           IF st.connection_active
           THEN [st |-> [st EXCEPT !.detection_score = @ + Sc(30)],
                 base |-> Rw(100)]
           ELSE NotConnectedSim(st)
      [] a = 9 -> WaitBranchSim(st)
      [] OTHER -> [st |-> st, base |-> 0]

\* a detection that clears the score it has acted on
DetectionPenaltySimForgets(out) ==
    IF out.st.detection_score > Sc(80)
    THEN [st |-> [out.st EXCEPT !.connection_active = FALSE,
                                !.detection_score = 0],
          ssh |-> FALSE,
          base |-> out.base,
          reward |-> out.base - Rw(500),
          info |-> [NoInfo EXCEPT !.detected = TRUE, !.terminated = TRUE,
                                  !.scored = TRUE,
                                  !.score = out.st.detection_score]]
    ELSE [st |-> out.st,
          ssh |-> FALSE,
          base |-> out.base,
          reward |-> out.base,
          info |-> [NoInfo EXCEPT !.scored = TRUE,
                                  !.score = out.st.detection_score]]

(***************************************************************************)
(* The detection penalty of the simulated variant (lines 192-199).         *)
(***************************************************************************)
DetectionPenaltySim(out) ==
    IF out.st.detection_score > Sc(80)
    THEN [st |-> [out.st EXCEPT !.connection_active = FALSE],
          ssh |-> FALSE,
          base |-> out.base,
          reward |-> out.base - Rw(500),
          info |-> [NoInfo EXCEPT !.detected = TRUE, !.terminated = TRUE,
                                  !.scored = TRUE,
                                  !.score = out.st.detection_score]]
    ELSE [st |-> out.st,
          ssh |-> FALSE,
          base |-> out.base,
          reward |-> out.base,
          info |-> [NoInfo EXCEPT !.scored = TRUE,
                                  !.score = out.st.detection_score]]

ExecuteAttackerActionSim(st, a, r) ==
    DetectionPenaltySim(AttackerBranchSim(st, a, r))


(***************************************************************************)
(* HoneypotEnv._execute_attacker_action, the action branches (lines        *)
(* 209-304).  The helpers answer through rnd: succ is the helper's boolean *)
(* result, n the length of the list it returns.  Every helper returns its  *)
(* empty answer when ssh_client is None (lines 586, 609, 627, 640, 653,    *)
(* 666, 679, 698).  _brute_force_ssh stores the new client (line 577).     *)
(* err is info['error'] = 'Not connected' of line 225.                     *)
(***************************************************************************)
AttackerBranchLive(st, ssh, a, r) ==
    LET ok == ssh /\ r.succ
        cnt == IF ssh THEN r.n ELSE 0
        same(b) == [st |-> st, ssh |-> ssh, base |-> b, err |-> FALSE]
    IN
    CASE a = 0 ->
           IF r.succ
           THEN [st |-> BruteForceOpens(st),
                 ssh |-> TRUE, base |-> Rw(200), err |-> FALSE]
           ELSE [st |-> [st EXCEPT !.failed_attempts = @ + 1],
                 ssh |-> ssh, base |-> Rw(-20), err |-> FALSE]
      [] a = 1 ->
           IF ~st.connection_active
           THEN [st |-> st, ssh |-> ssh, base |-> Rw(-50), err |-> TRUE]
           ELSE [st |-> [st EXCEPT !.commands_executed = @ + 3],
                 ssh |-> ssh, base |-> Rw(50) + 30 * cnt, err |-> FALSE]
      [] a = 2 ->
           IF ~st.connection_active
           THEN same(Rw(-50))
           ELSE [st |-> [st EXCEPT !.commands_executed = @ + 5],
                 ssh |-> ssh, base |-> Rw(80), err |-> FALSE]
      [] a = 3 ->
           IF ~st.connection_active
           THEN same(Rw(-50))
           ELSE IF ok
                THEN [st |-> [st EXCEPT !.files_accessed = @ + 1,
                                        !.successful_exploits = @ + 1],
                      ssh |-> ssh, base |-> Rw(150), err |-> FALSE]
                ELSE same(Rw(-30))
      [] a = 4 ->
           IF ~st.connection_active
           THEN same(Rw(-50))
           ELSE IF ok
                THEN [st |-> [st EXCEPT !.privilege_level = PrivRoot,
                                        !.successful_exploits = @ + 1],
                      ssh |-> ssh, base |-> Rw(300), err |-> FALSE]
                ELSE same(Rw(-40))
      [] a = 5 ->
           IF st.privilege_level < PrivUser
           THEN same(Rw(-50))
           ELSE same(IF ok THEN Rw(250) ELSE Rw(-30))
      [] a = 6 ->
           IF st.privilege_level < PrivUser
           THEN same(Rw(-50))
           ELSE [st |-> [st EXCEPT !.files_accessed = @ + 1],
                 ssh |-> ssh,
                 base |-> IF ok THEN Rw(180) ELSE Rw(-20), err |-> FALSE]
      [] a = 7 ->
           IF ~st.connection_active
           THEN same(Rw(-50))
           ELSE [st |-> [st EXCEPT !.files_accessed = @ + cnt],
                 ssh |-> ssh, base |-> Rw(120) + 6 * cnt, err |-> FALSE]
      [] a = 8 ->
           IF ~st.connection_active
           THEN same(Rw(-50))
           ELSE [st |-> st, ssh |-> ssh, base |-> Rw(100) + 30 * cnt,
                 err |-> FALSE]
      [] a = 9 -> same(Rw(-5))
      [] OTHER -> same(0)

\* a close that drops the client and forgets connection_active
CloseSshKeepsConnection(st, ssh) == [st |-> st, ssh |-> FALSE]

(***************************************************************************)
(* HoneypotEnv._close_ssh (lines 903-911): connection_active is cleared    *)
(* only when a client is held.                                             *)
(***************************************************************************)
CloseSsh(st, ssh) ==
    IF ssh
    THEN [st |-> [st EXCEPT !.connection_active = FALSE], ssh |-> FALSE]
    ELSE [st |-> st, ssh |-> ssh]

(***************************************************************************)
(* The detection penalty of the live variant (lines 306-316).              *)
(***************************************************************************)
\* the proportional penalty with an inclusive lower edge
ProportionalPenaltyFromHalf(detection_score) == detection_score >= Sc(50)

\* the guard of the proportional penalty (line 313)
ProportionalPenaltyApplies(detection_score) == detection_score > Sc(50)

DetectionPenaltyLive(out, fc) ==
    LET detection_score == CalculateDetectionScore(out.st, fc)
        closed == CloseSsh(out.st, out.ssh)
        info == [NoInfo EXCEPT !.error = out.err, !.scored = TRUE,
                               !.score = detection_score]
    IN  IF detection_score > Sc(80)
        THEN [st |-> closed.st, ssh |-> closed.ssh, base |-> out.base,
              reward |-> out.base - Rw(500),
              info |-> [info EXCEPT !.detected = TRUE, !.terminated = TRUE]]
        ELSE IF ProportionalPenaltyApplies(detection_score)
        THEN [st |-> out.st, ssh |-> out.ssh, base |-> out.base,
              reward |-> out.base - 2 * detection_score,
              info |-> info]
        ELSE [st |-> out.st, ssh |-> out.ssh, base |-> out.base,
              reward |-> out.base, info |-> info]

(***************************************************************************)
(* A failure inside the try block of _execute_attacker_action.  Every      *)
(* helper of the attacker catches what its SSH calls raise; the one        *)
(* statement that runs outside such a guard is the print of the except     *)
(* handler in _enumerate_system (line 603), reached with a client held.    *)
(***************************************************************************)
AttackerFaultPoint(st, ssh, a) ==
    a = 1 /\ st.connection_active /\ ssh

\* a handler that ends the episode on a fault
AttackerFaultHandlerEnds(st, ssh) ==
    [st |-> st, ssh |-> ssh, base |-> Rw(-100), reward |-> Rw(-100),
     info |-> [NoInfo EXCEPT !.error = TRUE, !.fault = TRUE,
                             !.terminated = TRUE]]

\* the except handler of lines 318-321
AttackerFaultHandler(st, ssh) ==
    [st |-> st, ssh |-> ssh, base |-> Rw(-100), reward |-> Rw(-100),
     info |-> [NoInfo EXCEPT !.error = TRUE, !.fault = TRUE]]

ExecuteAttackerAction(st, ssh, a, r) ==
    IF r.fault /\ AttackerFaultPoint(st, ssh, a)
    THEN AttackerFaultHandler(st, ssh)
    ELSE DetectionPenaltyLive(AttackerBranchLive(st, ssh, a, r), r.fc)


(***************************************************************************)
(* HoneypotEnvSimulated._execute_defender_action_sim (lines 201-264).      *)
(* r.attack is attack_happening, r.succ the branch's second draw.          *)
(***************************************************************************)
\* a monitor that is rewarded only while an attack is happening
MonitorRewardSimOnAttack(attack) == IF attack THEN Rw(10) ELSE 0

\* the monitor branch (lines 209-210), attack being attack_happening
MonitorRewardSim(attack) == Rw(10)

ExecuteDefenderActionSim(ds, a, r) ==
    LET hit == r.attack /\ r.succ
        blocked == [ds EXCEPT !.ips_blocked = @ + 1,
                              !.attacks_detected = @ + 1]
        out ==
          CASE a = 0 -> [ds |-> ds, base |-> MonitorRewardSim(r.attack)]
            [] a = 1 -> IF r.attack
                        THEN [ds |-> [ds EXCEPT !.attacks_detected = @ + 1],
                              base |-> Rw(50)]
                        ELSE [ds |-> ds, base |-> Rw(-10)]
            [] a = 2 -> IF hit THEN [ds |-> blocked, base |-> Rw(100)]
                               ELSE [ds |-> ds, base |-> Rw(-20)]
            [] a = 3 -> IF hit THEN [ds |-> blocked, base |-> Rw(200)]
                               ELSE [ds |-> ds, base |-> Rw(-50)]
            [] a = 4 -> [ds |-> ds,
                         base |-> IF r.succ THEN Rw(150) ELSE Rw(-30)]
            [] a = 5 -> [ds |-> ds, base |-> Rw(80)]
            [] a = 6 -> [ds |-> ds,
                         base |-> IF r.attack THEN Rw(120) ELSE Rw(-40)]
            [] a = 7 -> [ds |-> ds,
                         base |-> IF hit THEN Rw(250) ELSE Rw(-100)]
            [] a = 8 -> [ds |-> ds, base |-> Rw(-80)]
            [] a = 9 -> [ds |-> ds,
                         base |-> IF r.succ THEN Rw(100) ELSE Rw(-20)]
            [] OTHER -> [ds |-> ds, base |-> 0]
        updated == IF r.attack
                   THEN [out.ds EXCEPT !.failed_logins = @ + r.inc1,
                                       !.suspicious_commands = @ + r.inc2]
                   ELSE out.ds
    IN  [ds |-> updated, base |-> out.base, reward |-> out.base,
         info |-> [NoInfo EXCEPT !.attack = r.attack]]

(***************************************************************************)
(* HoneypotEnv._execute_defender_action (lines 325-426).  r.n is the       *)
(* number of attacker IPs _identify_attacker_ips returns, r.sev the value  *)
(* of _assess_attack_severity in thousandths; _deploy_honeypot_decoy and   *)
(* _deploy_deception return True.                                          *)
(***************************************************************************)
DefenderBranchLive(ds, a, r) ==
    LET fp(b) == [ds |-> [ds EXCEPT !.false_positives = @ + 1], base |-> b]
    IN
    CASE a = 0 -> [ds |-> ds, base |-> Rw(10)]
      [] a = 1 -> IF r.n > 0
                  THEN [ds |-> [ds EXCEPT !.attacks_mitigated = @ + r.n],
                        base |-> Rw(50) * r.n]
                  ELSE fp(Rw(-10))
      [] a = 2 -> IF r.n > 0
                  THEN [ds |-> [ds EXCEPT !.ips_blocked = @ + r.n],
                        base |-> Rw(100) * r.n]
                  ELSE fp(Rw(-20))
      [] a = 3 -> IF r.n > 0
                  THEN [ds |-> [ds EXCEPT !.ips_blocked = @ + r.n],
                        base |-> Rw(200) * r.n]
                  ELSE fp(Rw(-50))
      [] a = 4 -> [ds |-> ds, base |-> Rw(150)]
      [] a = 5 -> [ds |-> ds, base |-> Rw(80)]
      [] a = 6 -> IF r.sev > 500
                  THEN [ds |-> [ds EXCEPT !.alerts_triggered = @ + 1],
                        base |-> (Rw(120) * r.sev) \div 1000]
                  ELSE fp(Rw(-40))
      [] a = 7 -> IF r.sev > 600
                  THEN [ds |-> ds, base |-> Rw(250)]
                  ELSE fp(Rw(-100))
      [] a = 8 -> [ds |-> ds, base |-> Rw(-80)]
      [] a = 9 -> [ds |-> ds, base |-> Rw(100)]
      [] OTHER -> [ds |-> ds, base |-> 0]

\* _count_attacks_detected (lines 839-842)
CountAttacksDetected(ds) == ds.attacks_mitigated

\* _count_missed_attacks (lines 844-847)
CountMissedAttacks(ds) == 0

\* the bonus and the penalty of lines 411-419
DefenderBonusLive(out) ==
    [ds |-> out.ds, base |-> out.base,
     reward |-> out.base + Rw(30) * CountAttacksDetected(out.ds)
                         - Rw(50) * CountMissedAttacks(out.ds),
     info |-> NoInfo]

(***************************************************************************)
(* A failure inside the try block of _execute_defender_action.  The        *)
(* helpers that query Elasticsearch catch everything (lines 732, 766,      *)
(* 821); _apply_rate_limit, _block_ips, _deploy_honeypot_decoy,            *)
(* _rotate_honeypot_config, _reset_honeypot and _deploy_deception run      *)
(* without a guard, before the branch assigns anything.                    *)
(***************************************************************************)
DefenderFaultPoint(a, r) ==
    \/ a \in {1, 2, 3} /\ r.n > 0
    \/ a \in {4, 5, 8, 9}

\* the except handler of lines 421-424
DefenderFaultHandler(ds) ==
    [ds |-> ds, base |-> Rw(-80), reward |-> Rw(-80),
     info |-> [NoInfo EXCEPT !.error = TRUE, !.fault = TRUE]]

\* what the telemetry helper of an intervention branch found: attacker
\* IPs (lines 338, 349, 360), a severity above 0.5 (line 384), an active
\* attack (line 394)
AttackFoundLive(a, r) ==
    \/ a \in {1, 2, 3} /\ r.n > 0
    \/ a = 6 /\ r.sev > 500
    \/ a = 7 /\ r.sev > 600

ExecuteDefenderAction(ds, a, r) ==
    IF r.fault /\ DefenderFaultPoint(a, r)
    THEN DefenderFaultHandler(ds)
    ELSE [DefenderBonusLive(DefenderBranchLive(ds, a, r))
             EXCEPT !.info.attack = AttackFoundLive(a, r)]

(***************************************************************************)
(* _get_action_name: the lookup actions[action] raises IndexError for an   *)
(* index beyond the list; a negative index down to -10 counts from the     *)
(* end.  The live variant answers 'unknown' for action >= 10 (line 901),   *)
(* the simulated one indexes unguarded (line 299).                         *)
(***************************************************************************)
GetActionNameRaises(v, a) ==
    IF v = "sim" THEN a >= 10 \/ a < -10
                 ELSE a < -10


(***************************************************************************)
(* The inputs a call can meet, by variant, mode and action: the draws the  *)
(* branch taken reads, a few values of each, the extremes of its range     *)
(* included.                                                               *)
(***************************************************************************)
Flags(b) == IF b THEN BOOLEAN ELSE {FALSE}

StepDraws(v, m, a) ==
    LET conn == attack_state.connection_active
        priv == attack_state.privilege_level >= PrivUser
    IN
    IF v = "sim" /\ m = "attacker" THEN
        {[NoRnd EXCEPT !.succ = b, !.bonus = x, !.n = k] :
            b \in Flags(a = 0 \/ (a \in {3, 4} /\ conn)
                              \/ (a \in {5, 6} /\ priv)),
            x \in IF a = 1 /\ conn THEN {0, Rw(30)} ELSE {0},
            k \in IF a = 7 /\ conn THEN {1, 5} ELSE {0}}
    ELSE IF v = "live" /\ m = "attacker" THEN
        {[NoRnd EXCEPT !.succ = b, !.n = k, !.fc = c, !.fault = f] :
            b \in Flags(a = 0 \/ (a \in {3, 4} /\ conn)
                              \/ (a \in {5, 6} /\ priv)),
            k \in IF ~conn THEN {0}
                  ELSE IF a = 1 THEN {10}
                  ELSE IF a = 7 THEN {0, 4}
                  ELSE IF a = 8 THEN {3} ELSE {0},
            c \in FailedCounts,
            f \in Flags(a = 1 /\ conn)}
    ELSE IF v = "sim" THEN
        {[NoRnd EXCEPT !.attack = t[1], !.succ = b,
                       !.inc1 = t[2], !.inc2 = t[3]] :
            t \in {<<FALSE, 1, 0>>, <<TRUE, 1, 0>>, <<TRUE, 5, 3>>},
            b \in Flags(a \in {2, 3, 4, 7, 9})}
    ELSE
        {[NoRnd EXCEPT !.n = k, !.sev = x, !.fault = f] :
            k \in IF a \in {1, 2, 3} THEN {0, 1, 2} ELSE {0},
            x \in IF a \in {6, 7} THEN {0, 500, 600, 625, 1000} ELSE {0},
            f \in Flags(a \in {1, 2, 3, 4, 5, 8, 9})}

\* random.randint draws of the simulated defender's reset (lines 77-79)
ResetDraws(v, m) ==
    IF v = "sim" /\ m = "defender"
    THEN {[NoRnd EXCEPT !.ac = d[1], !.fl = d[2], !.sc = d[3]] :
             d \in {<<1, 0, 0>>, <<5, 20, 10>>}}
    ELSE {NoRnd}

\* reset_info is the dictionary reset returns, as a set of <<key, value>>
NoResult ==
    [kind |-> "none", action |-> 0, reward |-> 0, base |-> 0,
     terminated |-> FALSE, truncated |-> FALSE, info |-> NoInfo,
     reset_info |-> {}]

(***************************************************************************)
(* The orchestrator before any training call (trainer.py, api.py).         *)
(***************************************************************************)
\* training calls explored side by side: each start request accepted by
\* api.py constructs one SelfPlayTrainer and starts one thread
MaxRuns == 2
\* largest n_iterations / n_rounds of a direct training call
MaxIterations == 5
\* largest "iterations" value of a start request
MaxApiIterations == 2

RunIds == 1..MaxRuns

Roles == {"attacker", "defender"}

\* SelfPlayTrainer.__init__, lines 57-64
EmptyHistory ==
    [iterations |-> <<>>, attacker_rewards |-> <<>>,
     defender_rewards |-> <<>>, attack_success_rates |-> <<>>,
     detection_rates |-> <<>>, timestamps |-> <<>>]

\* a SelfPlayTrainer after construction: its history, the checkpoints it
\* wrote (save_models), the progress plots it wrote and its history file
NewTrainer ==
    [training_history |-> EmptyHistory,
     saved |-> <<>>,
     plots |-> 0,
     history_file |-> [written |-> FALSE, content |-> EmptyHistory]]

\* the results dictionary of an evaluate call; every value is the pair
\* <<iteration that computed it, value>>
NoResults == [mean_reward |-> <<0, 0>>, success_rate |-> <<0, 0>>,
              detection_rate |-> <<0, 0>>]

\* the frame of one call of train_self_play / train_alternating: its
\* arguments (train_self_play passes timesteps_per_iteration to both
\* agents), the loop variable, the statement it is at, the trainer object
\* it runs on, the locals attacker_results / defender_results, the
\* phases it has completed so far, each as <<phase, iteration, timesteps
\* passed to train>>, and the number of append statements of
\* _log_iteration already executed in the current call of it
NoRun ==
    [fn |-> "none", n |-> 0, attacker_timesteps |-> 0,
     defender_timesteps |-> 0, iteration |-> 0, pc |-> "none",
     status |-> "none", thread |-> FALSE, trainer |-> 0,
     attacker_results |-> NoResults, defender_results |-> NoResults,
     events |-> <<>>, logged |-> 0]

\* the thread serving an evaluate request (api.py lines 76-91): the
\* statement it is at and the trainer object it read from the global
NoEvaluation == [pc |-> "none", trainer |-> 0, served |-> 0]

\* the body of the last reply to a status, history or live-metrics
\* request: the length of each history array in it
NoQuery == [kind |-> "none", lengths |-> <<>>]

\* api.py lines 16-18: trainer = None, is_training = False
OrchIdle ==
    /\ is_training = FALSE
    /\ trainer = 0
    /\ runs = [r \in RunIds |-> NoRun]
    /\ trainers = [t \in RunIds |-> NewTrainer]
    /\ response = "none"
    /\ stop_accepted = {}
    /\ evaluation = NoEvaluation
    /\ query = NoQuery

(***************************************************************************)
(* The model directory and the configuration before any file operation     *)
(* (config_loader.py, set_best_model.py).                                  *)
(***************************************************************************)
\* iterations whose checkpoints may exist in the production directory
MaxCheckpoint == 2
\* file operations explored in one behaviour
MaxOps == 2

CheckpointIters == 1..MaxCheckpoint

\* <prod_dir>/<role>_iter_<k>.zip and <prod_dir>/<role>_best.zip
IterFile(role, k) == <<role, "iter", k>>

BestFile(role) == <<role, "best", 0>>

FileNames ==
    {IterFile(role, k) : role \in Roles, k \in CheckpointIters}
        \cup {BestFile(role) : role \in Roles}

\* the content of a file: 0 when the file is absent, else the iteration
\* whose policy it holds
NoFile == 0

\* config['model_paths'] as _default_config gives it: the pointers name the
\* alias files
AliasConfig ==
    [attacker_best |-> BestFile("attacker"),
     defender_best |-> BestFile("defender")]

\* the policy of a freshly constructed agent
FreshPolicy == 0

NoOutcome ==
    [seq |-> 0, op |-> "none", role |-> "none", arg |-> 0,
     status |-> "none"]

StoreIdle ==
    /\ fs = [f \in FileNames |-> NoFile]
    /\ config = AliasConfig
    /\ config_file = AliasConfig
    /\ model = [role \in Roles |-> FreshPolicy]
    /\ outcome = NoOutcome

(***************************************************************************)
(* The advisor before any agent is constructed (attacker_agent.py,         *)
(* config_loader.py).                                                      *)
(***************************************************************************)
\* AttackerAgent objects constructed in one process: every accepted start
\* request constructs a SelfPlayTrainer and with it an agent (api.py line
\* 42, trainer.py line 50)
MaxAgents == 2
\* predict calls explored in one behaviour
MaxPredicts == 2
\* longest answer text of the advisor, in characters
MaxText == 2

AgentIds == 1..MaxAgents

\* consult_probability and the random.random() draw, in hundredths
DefaultConsultProb == 20

\* config['llm'] as _default_config gives it (config_loader.py line 29),
\* read through the defaults of LLMAssistant.__init__ (lines 44-48)
DefaultLlmConfig ==
    [enabled |-> FALSE, provider |-> "ollama",
     consult_probability |-> DefaultConsultProb]

\* the value None of a suggestion
NoSuggestion == -1

\* an AttackerAgent that does not exist yet.  llm_assistant is FALSE for
\* None; enabled and probes are the assistant's enabled flag and the
\* number of _test_connection calls it made
NoAgent ==
    [constructed |-> FALSE, llm_assistant |-> FALSE, enabled |-> FALSE,
     probes |-> 0, llm_suggestions_used |-> 0,
     llm_suggestions_total |-> 0]

\* the answer of the advisor service to one request
NoReply == [kind |-> "none", text |-> <<>>]

\* the last predict call: its arguments, what the policy would answer
\* (greedy, sampled), whether get_suggestion was called and whether the
\* service was queried, the suggestion, and the action returned
NoPrediction ==
    [seq |-> 0, agent |-> 0, deterministic |-> FALSE, rollout |-> FALSE,
     greedy |-> 0, sampled |-> 0, draw |-> 0, reply |-> NoReply,
     prompt_raises |-> FALSE,
     consulted |-> FALSE, queried |-> FALSE, suggestion |-> NoSuggestion,
     action |-> 0, status |-> "none"]

\* the locals of an evaluate call (attacker_agent.py lines 263-273,
\* defender_agent.py lines 120-131): the statement the call is at, the
\* number of episodes asked for, len(episode_rewards), the reset calls made,
\* episode_length, and the two counters of the attacker.  policy names the
\* deterministic policy the agent's model computes
NoEvalCall ==
    [pc |-> "idle", policy |-> "none", n_episodes |-> 0, episodes |-> 0,
     resets |-> 0, episode_length |-> 0, success_count |-> 0,
     detection_count |-> 0]

AdvIdle ==
    /\ llm_config = DefaultLlmConfig
    /\ agents = [a \in AgentIds |-> NoAgent]
    /\ prediction = NoPrediction
    /\ eval_call = NoEvalCall

(***************************************************************************)
(* The state after construction (__init__, _setup_attacker_spaces,         *)
(* _setup_defender_spaces).                                                *)
(***************************************************************************)
InitEnv(steps) ==
    /\ variant \in Variants
    /\ mode \in Modes
    /\ max_steps = steps
    /\ current_step = 0
    /\ attack_state = InitAttackState
    /\ ssh_client = FALSE
    /\ defense_state = ZeroDefenseState
    /\ result = NoResult
    /\ everTerminated = FALSE
    /\ cumulative = 0
    /\ OrchIdle
    /\ StoreIdle
    /\ AdvIdle

Init == InitEnv(MaxSteps)

(***************************************************************************)
(* reset (sim lines 61-84, live lines 139-172).                            *)
(***************************************************************************)
\* the second value reset returns: {} in the simulated variant (line 84),
\* {'step': 0, 'mode': self.mode} in the live one (line 170)
ResetInfo(v, m) ==
    IF v = "sim" THEN {} ELSE {<<"step", 0>>, <<"mode", m>>}

ResetEnv(r) ==
    /\ current_step' = 0
    /\ ssh_client' = FALSE
    /\ IF mode = "attacker"
       THEN /\ attack_state' = InitAttackState
            /\ UNCHANGED defense_state
       ELSE /\ defense_state' =
                 IF variant = "sim"
                 THEN [ZeroDefenseState EXCEPT !.active_connections = r.ac,
                                               !.failed_logins = r.fl,
                                               !.suspicious_commands = r.sc]
                 ELSE ZeroDefenseState
            /\ UNCHANGED attack_state
    /\ result' = [NoResult EXCEPT !.kind = "reset",
                                  !.reset_info = ResetInfo(variant, mode)]
    /\ everTerminated' = FALSE
    /\ cumulative' = 0
    /\ UNCHANGED <<variant, mode, max_steps>>

ResetWith(r) == ResetEnv(r) /\ UNCHANGED <<orchVars, storeVars, advVars>>

Reset == \E r \in ResetDraws(variant, mode) : ResetWith(r)

(***************************************************************************)
(* step (sim lines 86-100, live lines 174-201).                            *)
(* current_step is incremented first; _get_action_name runs before the     *)
(* try block, so its IndexError leaves step with the counter advanced and  *)
(* nothing else changed.                                                   *)
(***************************************************************************)
Execute(a, r) ==
    IF mode = "attacker"
    THEN LET o == IF variant = "sim"
                  THEN ExecuteAttackerActionSim(attack_state, a, r)
                  ELSE ExecuteAttackerAction(attack_state, ssh_client, a, r)
         IN  [ast |-> o.st, ssh |-> o.ssh, ds |-> defense_state,
              base |-> o.base, reward |-> o.reward, info |-> o.info]
    ELSE LET o == IF variant = "sim"
                  THEN ExecuteDefenderActionSim(defense_state, a, r)
                  ELSE ExecuteDefenderAction(defense_state, a, r)
         IN  [ast |-> attack_state, ssh |-> ssh_client, ds |-> o.ds,
              base |-> o.base, reward |-> o.reward, info |-> o.info]

\* truncation one step late
TruncatedLate(step) == step > max_steps

\* line 96 (sim), line 192 (live)
Truncated(step) == step >= max_steps

StepEnv(a, r) ==
    /\ current_step' = current_step + 1
    /\ IF GetActionNameRaises(variant, a)
       THEN /\ result' = [NoResult EXCEPT !.kind = "raise", !.action = a]
            /\ UNCHANGED <<attack_state, ssh_client, defense_state,
                           everTerminated>>
       ELSE \E o \in {Execute(a, r)} :
                /\ attack_state' = o.ast
                /\ ssh_client' = o.ssh
                /\ defense_state' = o.ds
                /\ result' = [kind |-> "ok", action |-> a,
                              reward |-> o.reward, base |-> o.base,
                              terminated |-> o.info.terminated,
                              truncated |-> Truncated(current_step + 1),
                              info |-> o.info, reset_info |-> {}]
                /\ everTerminated' = (everTerminated \/ o.info.terminated)
    /\ UNCHANGED <<variant, mode, max_steps>>

StepAct(a, r) == StepEnv(a, r) /\ UNCHANGED <<orchVars, storeVars, advVars>>

Step ==
    /\ current_step < StepCap
    /\ \E a \in ActionInputs :
          \E r \in StepDraws(variant, mode, a) : StepAct(a, r)
    /\ UNCHANGED cumulative

Next == Reset \/ Step

Spec == Init /\ [][Next]_vars

(***************************************************************************)
(* The deep specification: attacker episodes of up to DeepStepCap steps.   *)
(* An episode builds its state up with brute force, recon, privilege       *)
(* escalation and exfiltration (the actions that feed the detection score  *)
(* of either variant), and may issue any one other action index as a       *)
(* probe; after the probe the episode is reset.  Every behaviour is a      *)
(* behaviour of the program: only the caller's choice of actions is        *)
(* narrowed.                                                               *)
(***************************************************************************)
BuildUpActions == {0, 2, 4, 7}

Building ==
    \/ result.kind \in {"none", "reset"}
    \/ result.kind = "ok" /\ result.action \in BuildUpActions

InitDeep ==
    /\ InitEnv(MaxSteps)
    /\ mode = "attacker"

BuildUp ==
    /\ Building
    /\ current_step < DeepStepCap
    /\ \E a \in BuildUpActions :
          \E r \in StepDraws(variant, mode, a) : StepAct(a, r)
    /\ UNCHANGED cumulative

Probe ==
    /\ Building
    /\ current_step < DeepStepCap
    /\ \E a \in ActionInputs \ BuildUpActions :
          \E r \in StepDraws(variant, mode, a) : StepAct(a, r)
    /\ UNCHANGED cumulative

NextDeep == Reset \/ BuildUp \/ Probe

SpecDeep == InitDeep /\ [][NextDeep]_vars

(***************************************************************************)
(* The fixed scenarios: max_steps is the default 100 and the caller issues *)
(* one action only, wait (9) as attacker and monitor (0) as defender, one  *)
(* call past the end of the episode included.  cumulative is the sum of    *)
(* the rewards returned since the last reset.  The simulated defender's    *)
(* counters get one fixed pair of increments here.                         *)
(***************************************************************************)
InitScenario == InitEnv(DefaultMaxSteps)

ScenarioDraws(v, m, a) ==
    {r \in StepDraws(v, m, a) : r.attack => (r.inc1 = 5 /\ r.inc2 = 3)}

WaitStep ==
    /\ mode = "attacker"
    /\ current_step <= max_steps
    /\ \E r \in ScenarioDraws(variant, mode, 9) :
          /\ StepAct(9, r)
          /\ cumulative' = cumulative + result'.reward

MonitorStep ==
    /\ mode = "defender"
    /\ current_step <= max_steps
    /\ \E r \in ScenarioDraws(variant, mode, 0) :
          /\ StepAct(0, r)
          /\ cumulative' = cumulative + result'.reward

NextScenario == Reset \/ WaitStep \/ MonitorStep

SpecScenario == InitScenario /\ [][NextScenario]_vars


(***************************************************************************)
(* The environment as the orchestrator and the file operations leave it:   *)
(* constructed (trainer.py line 46) and not stepped by the model.          *)
(***************************************************************************)
EnvIdle ==
    /\ variant = "sim"
    /\ mode = "attacker"
    /\ max_steps = DefaultMaxSteps
    /\ current_step = 0
    /\ attack_state = InitAttackState
    /\ ssh_client = FALSE
    /\ defense_state = ZeroDefenseState
    /\ result = NoResult
    /\ everTerminated = FALSE
    /\ cumulative = 0

(***************************************************************************)
(* SelfPlayTrainer (trainer.py): the helpers of the training loops, as     *)
(* functions of the trainer object t.                                      *)
(***************************************************************************)
\* AttackerAgent.evaluate (attacker_agent.py 259-313) and
\* DefenderAgent.evaluate (defender_agent.py 116-170): what an evaluation
\* can measure
AttackerEvalDraws ==
    {[mean_reward |-> 0, success_rate |-> 0, detection_rate |-> 1],
     [mean_reward |-> 1, success_rate |-> 1, detection_rate |-> 0]}

DefenderEvalDraws == {0, 1}

\* the two evaluations of one self-play iteration, lines 111-112
SelfPlayEvalDraws ==
    {<<[mean_reward |-> 0, success_rate |-> 0, detection_rate |-> 1], 1>>,
     <<[mean_reward |-> 1, success_rate |-> 1, detection_rate |-> 0], 0>>}

AttackerResults(it, d) ==
    [mean_reward |-> <<it, d.mean_reward>>,
     success_rate |-> <<it, d.success_rate>>,
     detection_rate |-> <<it, d.detection_rate>>]

DefenderResults(it, v) ==
    [mean_reward |-> <<it, v>>, success_rate |-> <<0, 0>>,
     detection_rate |-> <<0, 0>>]

\* a logger that forgets the timestamp
LogIterationNoTimestamp(t, iteration, attacker_results, defender_results) ==
    [t EXCEPT !.training_history =
        [@ EXCEPT
           !.iterations = Append(@, iteration),
           !.attacker_rewards = Append(@, attacker_results.mean_reward),
           !.defender_rewards = Append(@, defender_results.mean_reward),
           !.attack_success_rates = Append(@, attacker_results.success_rate),
           !.detection_rates = Append(@, attacker_results.detection_rate)]]

\* _log_iteration, lines 170-183
LogIteration(t, iteration, attacker_results, defender_results) ==
    [t EXCEPT !.training_history =
        [iterations |-> Append(@.iterations, iteration),
         attacker_rewards |->
             Append(@.attacker_rewards, attacker_results.mean_reward),
         defender_rewards |->
             Append(@.defender_rewards, defender_results.mean_reward),
         attack_success_rates |->
             Append(@.attack_success_rates, attacker_results.success_rate),
         detection_rates |->
             Append(@.detection_rates, attacker_results.detection_rate),
         timestamps |-> Append(@.timestamps, <<iteration, 0>>)]]

\* save_models, lines 192-200: the attacker's file, then the defender's;
\* "during" is the loop iteration in which the call was made, 0 for the
\* call after the loop
SaveModels(t, label, during) ==
    [t EXCEPT !.saved =
        @ \o <<[role |-> "attacker", label |-> label, during |-> during],
               [role |-> "defender", label |-> label, during |-> during]>>]

\* plot_training_progress, lines 219-273: nothing is written while the
\* history is empty
PlotTrainingProgress(t) ==
    IF t.training_history.iterations = <<>>
    THEN t
    ELSE [t EXCEPT !.plots = @ + 1]

\* save_training_history, lines 212-217
SaveTrainingHistory(t) ==
    [t EXCEPT !.history_file =
        [written |-> TRUE, content |-> t.training_history]]

\* checkpoints on the odd iterations instead
CheckpointDueOdd(iteration) == iteration % 2 = 1

\* line 119
CheckpointDue(iteration) == iteration % 2 = 0

\* line 123
PlotDue(iteration) == iteration % 5 = 0

\* a round loop that checkpoints like the self-play loop does
RoundCheckpointDueEven(round_num) == round_num % 2 = 0

\* line 165: save_models(round_num) is unconditional
RoundCheckpointDue(round_num) == TRUE

\* an order in which the defender is not trained before the evaluation
PhaseAfterSkipsDefender(fn, pc) ==
    IF fn = "self_play"
    THEN CASE pc = "train_attacker" -> "evaluate"
           [] pc = "train_defender" -> "evaluate"
           [] pc = "evaluate" -> "log"
           [] OTHER -> "loop"
    ELSE CASE pc = "train_attacker" -> "evaluate_attacker"
           [] pc = "evaluate_attacker" -> "train_defender"
           [] pc = "train_defender" -> "evaluate_defender"
           [] pc = "evaluate_defender" -> "log"
           [] OTHER -> "loop"

\* the statement order of the loop bodies: train_self_play lines 91-124,
\* train_alternating lines 153-165
PhaseAfter(fn, pc) ==
    IF fn = "self_play"
    THEN CASE pc = "train_attacker" -> "train_defender"
           [] pc = "train_defender" -> "evaluate"
           [] pc = "evaluate" -> "log"
           [] OTHER -> "loop"
    ELSE CASE pc = "train_attacker" -> "evaluate_attacker"
           [] pc = "evaluate_attacker" -> "train_defender"
           [] pc = "train_defender" -> "evaluate_defender"
           [] pc = "evaluate_defender" -> "log"
           [] OTHER -> "loop"

\* total_timesteps of the train call at pc (lines 95, 104, 155, 160)
TimestepsPassed(run, pc) ==
    IF pc = "train_attacker" THEN run.attacker_timesteps
    ELSE IF pc = "train_defender" THEN run.defender_timesteps
    ELSE 0

\* a loop that swallows the failure of a phase and goes on
PhaseRaisedContinues(run) ==
    [run EXCEPT !.pc = PhaseAfter(run.fn, run.pc),
                !.events = Append(@, <<"raised", run.iteration, 0>>)]

\* no try block encloses the phases (lines 84-124, 148-165): the exception
\* leaves the call at the statement that raised it
PhaseRaised(run) ==
    [run EXCEPT !.status = "raised",
                !.events = Append(@, <<"raised", run.iteration, 0>>)]

\* the phase at run.pc completed
PhaseDone(run) ==
    [run EXCEPT !.pc = PhaseAfter(run.fn, run.pc),
                !.events = Append(@, <<run.pc, run.iteration,
                                       TimestepsPassed(run, run.pc)>>)]

Running(r, pc) ==
    /\ runs[r].status = "running"
    /\ runs[r].pc = pc

(***************************************************************************)
(* The steps of a training call.  Each is one statement group of           *)
(* train_self_play (lines 84-133) or train_alternating (lines 135-168),    *)
(* taken by the run r that is at it.                                       *)
(***************************************************************************)
OrchFrame == UNCHANGED <<envVars, storeVars, advVars, evaluation, query>>

\* for ... in range(1, n + 1): lines 84 and 148
LoopHead ==
    \E r \in RunIds :
        /\ Running(r, "loop")
        /\ runs' = [runs EXCEPT ![r] =
              IF @.iteration < @.n
              THEN [@ EXCEPT !.iteration = @ + 1, !.pc = "train_attacker"]
              ELSE [@ EXCEPT !.pc = "final"]]
        /\ UNCHANGED <<is_training, trainer, trainers, response, stop_accepted>>
        /\ OrchFrame

\* self.attacker.train, lines 93-98 and 155
TrainAttacker ==
    \E r \in RunIds :
        /\ Running(r, "train_attacker")
        /\ \E fault \in BOOLEAN :
              runs' = [runs EXCEPT ![r] =
                          IF fault THEN PhaseRaised(@) ELSE PhaseDone(@)]
        /\ UNCHANGED <<is_training, trainer, trainers, response, stop_accepted>>
        /\ OrchFrame

\* self.defender.train, lines 102-107 and 160
TrainDefender ==
    \E r \in RunIds :
        /\ Running(r, "train_defender")
        /\ \E fault \in BOOLEAN :
              runs' = [runs EXCEPT ![r] =
                          IF fault THEN PhaseRaised(@) ELSE PhaseDone(@)]
        /\ UNCHANGED <<is_training, trainer, trainers, response, stop_accepted>>
        /\ OrchFrame

\* lines 111-112: both agents are evaluated
Evaluate ==
    \E r \in RunIds :
        /\ Running(r, "evaluate")
        /\ \/ runs' = [runs EXCEPT ![r] = PhaseRaised(@)]
           \/ \E e \in SelfPlayEvalDraws :
                 runs' = [runs EXCEPT ![r] =
                    [PhaseDone(@) EXCEPT
                       !.attacker_results =
                           AttackerResults(runs[r].iteration, e[1]),
                       !.defender_results =
                           DefenderResults(runs[r].iteration, e[2])]]
        /\ UNCHANGED <<is_training, trainer, trainers, response, stop_accepted>>
        /\ OrchFrame

\* line 156
EvaluateAttacker ==
    \E r \in RunIds :
        /\ Running(r, "evaluate_attacker")
        /\ \/ runs' = [runs EXCEPT ![r] = PhaseRaised(@)]
           \/ \E d \in AttackerEvalDraws :
                 runs' = [runs EXCEPT ![r] =
                    [PhaseDone(@) EXCEPT
                       !.attacker_results = AttackerResults(runs[r].iteration, d)]]
        /\ UNCHANGED <<is_training, trainer, trainers, response, stop_accepted>>
        /\ OrchFrame

\* line 161
EvaluateDefender ==
    \E r \in RunIds :
        /\ Running(r, "evaluate_defender")
        /\ \/ runs' = [runs EXCEPT ![r] = PhaseRaised(@)]
           \/ \E v \in DefenderEvalDraws :
                 runs' = [runs EXCEPT ![r] =
                    [PhaseDone(@) EXCEPT
                       !.defender_results = DefenderResults(runs[r].iteration, v)]]
        /\ UNCHANGED <<is_training, trainer, trainers, response, stop_accepted>>
        /\ OrchFrame

\* the end of the loop body.  train_self_play, lines 115-124: log, save on
\* the even iterations, plot on every fifth; train_alternating, lines
\* 164-165: log and save
AfterLog(logged, run) ==
    IF run.fn = "self_play"
    THEN LET kept == IF CheckpointDue(run.iteration)
                     THEN SaveModels(logged, run.iteration, run.iteration)
                     ELSE logged
         IN  IF PlotDue(run.iteration)
             THEN PlotTrainingProgress(kept)
             ELSE kept
    ELSE IF RoundCheckpointDue(run.iteration)
         THEN SaveModels(logged, run.iteration, run.iteration)
         ELSE logged

EndOfIteration(t, run) ==
    AfterLog(LogIteration(t, run.iteration, run.attacker_results,
                          run.defender_results), run)

LogAndCheckpoint ==
    \E r \in RunIds :
        /\ Running(r, "log")
        /\ trainers' = [trainers EXCEPT ![runs[r].trainer] =
                           EndOfIteration(@, runs[r])]
        /\ runs' = [runs EXCEPT ![r] = PhaseDone(@)]
        /\ UNCHANGED <<is_training, trainer, response, stop_accepted>>
        /\ OrchFrame

\* after the loop.  train_self_play, lines 131-133: save_models(n),
\* plot, save_training_history; train_alternating, line 168: plot
AfterLoop(t, run) ==
    IF run.fn = "self_play"
    THEN SaveTrainingHistory(
             PlotTrainingProgress(SaveModels(t, run.n, 0)))
    ELSE PlotTrainingProgress(t)

Finalize ==
    \E r \in RunIds :
        /\ Running(r, "final")
        /\ trainers' = [trainers EXCEPT ![runs[r].trainer] =
                           AfterLoop(@, runs[r])]
        /\ runs' = [runs EXCEPT ![r] =
              [@ EXCEPT !.status = "returned",
                        !.events = Append(@, <<"final", runs[r].iteration, 0>>)]]
        /\ UNCHANGED <<is_training, trainer, response, stop_accepted>>
        /\ OrchFrame

(***************************************************************************)
(* A training call made directly on a fresh trainer, as main() does        *)
(* (trainer.py lines 313-326).                                             *)
(***************************************************************************)
TrainingCalls == {"self_play", "alternating"}

\* timestep budgets a caller passes
Budgets == {1, 2}

CallTraining ==
    /\ runs[1].status = "none"
    /\ \E fn \in TrainingCalls, n \in 0..MaxIterations :
       \E a \in Budgets, d \in Budgets :
          /\ fn = "self_play" => d = a
          /\ runs' = [runs EXCEPT ![1] =
                [NoRun EXCEPT !.fn = fn, !.n = n,
                              !.attacker_timesteps = a,
                              !.defender_timesteps = d,
                              !.pc = "loop",
                              !.status = "running", !.trainer = 1]]
    /\ UNCHANGED <<is_training, trainer, trainers, response, stop_accepted>>
    /\ OrchFrame

InitTrainer == EnvIdle /\ OrchIdle /\ StoreIdle /\ AdvIdle

NextTrainer ==
    \/ CallTraining
    \/ LoopHead
    \/ TrainAttacker
    \/ TrainDefender
    \/ Evaluate
    \/ EvaluateAttacker
    \/ EvaluateDefender
    \/ LogAndCheckpoint
    \/ Finalize

SpecTrainer == InitTrainer /\ [][NextTrainer]_vars

(***************************************************************************)
(* The HTTP handlers of api.py and the thread each accepted start request  *)
(* creates.  A handler is one action; the thread body train() (lines       *)
(* 45-54) runs concurrently with the handlers and with the other threads,  *)
(* one statement group at a time.                                          *)
(***************************************************************************)
\* the run is inside train_self_play
InTraining(r) ==
    /\ runs[r].status = "running"
    /\ runs[r].pc \notin {"none", "spawned"}

\* start_training, lines 29-63.  It reads is_training and never writes it:
\* only the thread does (line 47)
StartTraining ==
    /\ \/ /\ is_training
          /\ response' = "start_rejected"
          /\ UNCHANGED <<is_training, trainer, runs, trainers>>
       \/ /\ ~is_training
          /\ \E r \in RunIds, n \in 1..MaxApiIterations, ts \in {1} :
                /\ runs[r].status = "none"
                /\ \A q \in RunIds : q < r => runs[q].status # "none"
                /\ trainer' = r
                /\ trainers' = [trainers EXCEPT ![r] = NewTrainer]
                /\ runs' = [runs EXCEPT ![r] =
                      [NoRun EXCEPT !.fn = "self_play", !.n = n,
                                    !.attacker_timesteps = ts,
                                    !.defender_timesteps = ts,
                                    !.pc = "spawned", !.status = "running",
                                    !.thread = TRUE]]
                /\ UNCHANGED is_training
                /\ response' = "started"
    /\ UNCHANGED stop_accepted
    /\ OrchFrame

\* train(), lines 46-49: is_training = True, then the global trainer is
\* looked up and its train_self_play is entered
ThreadBegin ==
    \E r \in RunIds :
        /\ Running(r, "spawned")
        /\ is_training' = TRUE
        /\ runs' = [runs EXCEPT ![r] =
                       [@ EXCEPT !.trainer = trainer, !.pc = "loop"]]
        /\ UNCHANGED <<trainer, trainers, response, stop_accepted>>
        /\ OrchFrame

\* a thread whose flag is reset after a normal return only
ThreadEndAfterReturnOnly ==
    \E r \in RunIds :
        /\ runs[r].thread
        /\ runs[r].status \in {"returned", "raised"}
        /\ runs[r].pc # "ended"
        /\ is_training' = (runs[r].status = "raised" /\ is_training)
        /\ runs' = [runs EXCEPT ![r] = [@ EXCEPT !.pc = "ended"]]
        /\ UNCHANGED <<trainer, trainers, response, stop_accepted>>
        /\ OrchFrame

\* train(), lines 53-54: finally, whether train_self_play returned or
\* raised
ThreadEnd ==
    \E r \in RunIds :
        /\ runs[r].thread
        /\ runs[r].status \in {"returned", "raised"}
        /\ runs[r].pc # "ended"
        /\ is_training' = FALSE
        /\ runs' = [runs EXCEPT ![r] = [@ EXCEPT !.pc = "ended"]]
        /\ UNCHANGED <<trainer, trainers, response, stop_accepted>>
        /\ OrchFrame

\* stop_training, lines 65-74
StopTraining ==
    /\ IF is_training
       THEN /\ is_training' = FALSE
            /\ response' = "stop_requested"
            /\ stop_accepted' =
                  stop_accepted \cup {r \in RunIds : InTraining(r)}
       ELSE /\ response' = "stop_rejected"
            /\ UNCHANGED <<is_training, stop_accepted>>
    /\ UNCHANGED <<trainer, runs, trainers>>
    /\ OrchFrame

\* evaluate requests explored in one behaviour
MaxEvaluations == 1

EvaluateFrame ==
    /\ UNCHANGED <<is_training, trainer, runs, trainers, stop_accepted,
                   query>>
    /\ UNCHANGED <<envVars, storeVars, advVars>>

\* evaluate_agents, lines 76-85: the request is refused while the global
\* trainer is None; otherwise the serving thread enters
\* trainer.attacker.evaluate, which resets and steps that trainer's
\* attacker simulator (attacker_agent.py lines 268-277)
EvaluateAgents ==
    /\ evaluation.pc = "none"
    /\ evaluation.served < MaxEvaluations
    /\ IF trainer = 0
       THEN /\ response' = "evaluate_rejected"
            /\ evaluation' = [evaluation EXCEPT !.served = @ + 1]
       ELSE /\ response' = response
            /\ evaluation' = [pc |-> "attacker", trainer |-> trainer,
                              served |-> evaluation.served + 1]
    /\ EvaluateFrame

\* line 86: the global trainer is read again and its defender.evaluate is
\* entered (defender_agent.py lines 126-135)
EvaluateAgentsDefender ==
    /\ evaluation.pc = "attacker"
    /\ evaluation' = [evaluation EXCEPT !.pc = "defender",
                                        !.trainer = trainer]
    /\ UNCHANGED response
    /\ EvaluateFrame

\* lines 88-91
EvaluateAgentsReturn ==
    /\ evaluation.pc = "defender"
    /\ evaluation' = [evaluation EXCEPT !.pc = "none", !.trainer = 0]
    /\ response' = "evaluated"
    /\ EvaluateFrame

InitApi == EnvIdle /\ OrchIdle /\ StoreIdle /\ AdvIdle

NextApi ==
    \/ StartTraining
    \/ StopTraining
    \/ ThreadBegin
    \/ LoopHead
    \/ TrainAttacker
    \/ TrainDefender
    \/ Evaluate
    \/ LogAndCheckpoint
    \/ Finalize
    \/ ThreadEnd
    \/ EvaluateAgents
    \/ EvaluateAgentsDefender
    \/ EvaluateAgentsReturn

SpecApi == InitApi /\ [][NextApi]_vars

(***************************************************************************)
(* Checkpoint files, the "best" aliases and the configuration pointers:    *)
(* set_best_model (set_best_model.py), RLConfig.update_best_models and     *)
(* save_config (config_loader.py), the agents' load (attacker_agent.py     *)
(* 321-334, defender_agent.py 178-182) and SelfPlayTrainer.load_models.    *)
(* An I/O failure of a copy or of the configuration write is an input of   *)
(* the operation.                                                          *)
(***************************************************************************)
PromoteFaults == {"none", "copy_attacker", "copy_defender", "save_config"}

\* config['model_paths'] after update_best_models(iteration), lines 47-48
IterConfig(iteration) ==
    [attacker_best |-> IterFile("attacker", iteration),
     defender_best |-> IterFile("defender", iteration)]

\* a check that looks at the attacker's checkpoint only
MissingCheckpointAttackerOnly(files, iteration) ==
    IF files[IterFile("attacker", iteration)] = NoFile
    THEN "missing_attacker"
    ELSE "none"

\* set_best_model, lines 22-28: both sources are checked before any copy
MissingCheckpoint(files, iteration) ==
    IF files[IterFile("attacker", iteration)] = NoFile
    THEN "missing_attacker"
    ELSE IF files[IterFile("defender", iteration)] = NoFile
         THEN "missing_defender"
         ELSE "none"

\* shutil.copy(src, dst): raises when the source is absent or the copy
\* fails, leaving dst as it was
CopyFile(files, src, dst, fails) ==
    IF fails \/ files[src] = NoFile
    THEN [files |-> files, raised |-> TRUE]
    ELSE [files |-> [files EXCEPT ![dst] = files[src]], raised |-> FALSE]

\* update_best_models without its second assignment: only the attacker
\* pointer moves (the behaviour C39 excludes)
UpdateBestModelsAttackerOnly(cfile, iteration, fails) ==
    [config |-> [attacker_best |-> IterFile("attacker", iteration),
                 defender_best |-> cfile.defender_best],
     config_file |-> cfile,
     raised |-> fails]

\* RLConfig.update_best_models, lines 44-50: the pointers are assigned in
\* memory, then save_config writes the file
UpdateBestModels(cfile, iteration, fails) ==
    [config |-> IterConfig(iteration),
     config_file |-> IF fails THEN cfile ELSE IterConfig(iteration),
     raised |-> fails]

\* set_best_model, lines 10-40, as a function of the directory, the
\* configuration and the failure injected
SetBestModel(files, cfg, cfile, iteration, fault) ==
    LET missing == MissingCheckpoint(files, iteration)
        a == CopyFile(files, IterFile("attacker", iteration),
                      BestFile("attacker"), fault = "copy_attacker")
        d == CopyFile(a.files, IterFile("defender", iteration),
                      BestFile("defender"), fault = "copy_defender")
        u == UpdateBestModels(cfile, iteration, fault = "save_config")
    IN  IF missing # "none"
        THEN [files |-> files, config |-> cfg, config_file |-> cfile,
              status |-> missing]
        ELSE IF a.raised
        THEN [files |-> a.files, config |-> cfg, config_file |-> cfile,
              status |-> "raised"]
        ELSE IF d.raised
        THEN [files |-> d.files, config |-> cfg, config_file |-> cfile,
              status |-> "raised"]
        ELSE [files |-> d.files, config |-> u.config,
              config_file |-> u.config_file,
              status |-> IF u.raised THEN "raised" ELSE "ok"]

StoreFrame == UNCHANGED <<envVars, orchVars, advVars>>

Done(op, role, arg, status) ==
    [seq |-> outcome.seq + 1, op |-> op, role |-> role, arg |-> arg,
     status |-> status]

\* set_best_model(iteration)
Promote ==
    /\ outcome.seq < MaxOps
    /\ \E iteration \in CheckpointIters, fault \in PromoteFaults :
          \E o \in {SetBestModel(fs, config, config_file, iteration, fault)} :
              /\ fs' = o.files
              /\ config' = o.config
              /\ config_file' = o.config_file
              /\ outcome' = Done("promote", "both", iteration, o.status)
    /\ UNCHANGED model
    /\ StoreFrame

\* what load does when the file is absent.  AttackerAgent.load, lines
\* 323-325: prints and returns self.  DefenderAgent.load, line 180: PPO.load
\* is called unguarded and raises FileNotFoundError
LoadAbsent(role) == IF role = "attacker" THEN "warned" ELSE "raised"

\* <agent>.load(path): the policy after the call and how the call ended
AgentLoad(files, policy, role, path) ==
    IF files[path] = NoFile
    THEN [policy |-> policy, status |-> LoadAbsent(role)]
    ELSE [policy |-> files[path], status |-> "ok"]

RoleFiles(role) == {f \in FileNames : f[1] = role}

\* AttackerAgent.load(path), attacker_agent.py lines 321-329
AttackerLoad ==
    /\ outcome.seq < MaxOps
    /\ \E path \in RoleFiles("attacker") :
          \E o \in {AgentLoad(fs, model["attacker"], "attacker", path)} :
              /\ model' = [model EXCEPT !["attacker"] = o.policy]
              /\ outcome' = Done("load", "attacker", path[3], o.status)
    /\ UNCHANGED <<fs, config, config_file>>
    /\ StoreFrame

\* DefenderAgent.load(path), defender_agent.py lines 178-182
DefenderLoad ==
    /\ outcome.seq < MaxOps
    /\ \E path \in RoleFiles("defender") :
          \E o \in {AgentLoad(fs, model["defender"], "defender", path)} :
              /\ model' = [model EXCEPT !["defender"] = o.policy]
              /\ outcome' = Done("load", "defender", path[3], o.status)
    /\ UNCHANGED <<fs, config, config_file>>
    /\ StoreFrame

\* AttackerAgent.load_best, attacker_agent.py lines 331-334: the path is
\* config['model_paths']['attacker_best']
AttackerLoadBest ==
    /\ outcome.seq < MaxOps
    /\ \E o \in {AgentLoad(fs, model["attacker"], "attacker",
                           config.attacker_best)} :
          /\ model' = [model EXCEPT !["attacker"] = o.policy]
          /\ outcome' = Done("load_best", "attacker",
                             config.attacker_best[3], o.status)
    /\ UNCHANGED <<fs, config, config_file>>
    /\ StoreFrame

\* SelfPlayTrainer.load_models(iteration), trainer.py lines 202-210: the
\* attacker's load, then the defender's
LoadModels ==
    /\ outcome.seq < MaxOps
    /\ \E iteration \in CheckpointIters :
          \E a \in {AgentLoad(fs, model["attacker"], "attacker",
                              IterFile("attacker", iteration))} :
          \E d \in {AgentLoad(fs, model["defender"], "defender",
                              IterFile("defender", iteration))} :
              /\ model' = [attacker |-> a.policy, defender |-> d.policy]
              /\ outcome' = Done("load_models", "both", iteration,
                                 IF d.status = "raised" THEN "raised"
                                 ELSE IF a.status = "warned" THEN "warned"
                                 ELSE d.status)
    /\ UNCHANGED <<fs, config, config_file>>
    /\ StoreFrame

\* the directories and configurations the operations can start from: any
\* subset of the checkpoints, aliases left by an earlier promotion (both of
\* one iteration) or none, and pointers that name the aliases or the
\* checkpoints of one iteration
InitConfigs == {AliasConfig} \cup {IterConfig(k) : k \in CheckpointIters}

InitLineage ==
    /\ EnvIdle
    /\ OrchIdle
    /\ AdvIdle
    /\ fs \in [FileNames -> {NoFile} \cup CheckpointIters]
    /\ \A role \in Roles, k \in CheckpointIters :
          fs[IterFile(role, k)] \in {NoFile, k}
    /\ fs[BestFile("attacker")] = fs[BestFile("defender")]
    /\ config \in InitConfigs
    /\ config_file = config
    /\ model = [role \in Roles |-> FreshPolicy]
    /\ outcome = NoOutcome

NextLineage ==
    \/ Promote
    \/ AttackerLoad
    \/ DefenderLoad
    \/ AttackerLoadBest
    \/ LoadModels

SpecLineage == InitLineage /\ [][NextLineage]_vars

(***************************************************************************)
(* The advisor: LLMAssistant and AttackerAgent.predict                     *)
(* (attacker_agent.py).  The answer of the service, the random draw of     *)
(* get_suggestion and the actions the policy would choose are inputs of a  *)
(* predict call.  An answer text is a sequence of characters.              *)
(***************************************************************************)
Digits == {"0", "7"}

\* the characters \w matches
WordChars == Digits \cup {"a"}

Chars == WordChars \cup {" "}

\* int(match.group(1)), line 150
DigitValue(c) == IF c = "0" THEN 0 ELSE 7

Texts == UNION {[1..n -> Chars] : n \in 0..MaxText}

\* a pattern without the word boundaries: any digit matches
AnyDigitAt(text, i) == text[i] \in Digits

\* the pattern \b([0-9])\b of line 148 matches at position i: a digit with
\* no word character on either side
StandaloneDigitAt(text, i) ==
    /\ text[i] \in Digits
    /\ (i = 1 \/ text[i - 1] \notin WordChars)
    /\ (i = Len(text) \/ text[i + 1] \notin WordChars)

\* lines 148-155: re.search returns the leftmost match
ExtractAction(text) ==
    LET hits == {i \in 1..Len(text) : StandaloneDigitAt(text, i)}
    IN  IF hits = {}
        THEN NoSuggestion
        ELSE DigitValue(text[CHOOSE i \in hits : \A j \in hits : i <= j])

\* what the service does with a request: no connection, no answer within
\* the timeout, an answer with a status other than 200, a 200 answer whose
\* body is not the expected JSON, or a 200 answer carrying a text
ReplyFailures == {"unreachable", "timeout", "status", "malformed"}

Replies ==
    {[kind |-> k, text |-> <<>>] : k \in ReplyFailures}
        \cup {[kind |-> "text", text |-> t] : t \in Texts}

\* _query_ollama, the try block of lines 128-155: requests.post raises
\* when the service is unreachable or times out, response.json()['response']
\* raises on a malformed body
QueryOllamaTry(reply) ==
    IF reply.kind \in {"unreachable", "timeout", "malformed"}
    THEN [raised |-> TRUE, value |-> NoSuggestion]
    ELSE IF reply.kind = "status"
    THEN [raised |-> FALSE, value |-> NoSuggestion]
    ELSE [raised |-> FALSE, value |-> ExtractAction(reply.text)]

\* _query_ollama with its handler, lines 157-159
QueryOllama(reply) ==
    LET t == QueryOllamaTry(reply)
    IN  [raised |-> FALSE,
         value |-> IF t.raised THEN NoSuggestion ELSE t.value]

\* get_suggestion, lines 68-87.  queried: _query_ollama was reached
GetSuggestion(ag, cfg, i) ==
    IF ~ag.enabled
    THEN [raised |-> FALSE, value |-> NoSuggestion, queried |-> FALSE]
    ELSE IF i.draw > cfg.consult_probability
    THEN [raised |-> FALSE, value |-> NoSuggestion, queried |-> FALSE]
    ELSE IF i.prompt_raises
    THEN [raised |-> FALSE, value |-> NoSuggestion, queried |-> FALSE]
    ELSE IF cfg.provider = "ollama"
    THEN [raised |-> QueryOllama(i.reply).raised,
          value |-> QueryOllama(i.reply).value, queried |-> TRUE]
    ELSE [raised |-> FALSE, value |-> NoSuggestion, queried |-> FALSE]

\* a guard that forgets the deterministic flag
ConsultsAlways(ag, deterministic) == ag.llm_assistant /\ ag.enabled

\* the guard of line 247
Consults(ag, deterministic) ==
    ag.llm_assistant /\ ag.enabled /\ ~deterministic

\* self.model.predict(observation, deterministic), line 256
ModelPredict(deterministic, i) ==
    IF deterministic THEN i.greedy ELSE i.sampled

\* _test_connection, lines 54-66: enabled stays True only on a 200 answer
ProbeOutcomes == {"ok", "status", "unreachable", "timeout"}

TestConnection(probe) == probe = "ok"

\* LLMAssistant.__init__, lines 42-52
LlmAssistantInit(cfg, probe) ==
    IF cfg.enabled
    THEN [enabled |-> TestConnection(probe), probes |-> 1]
    ELSE [enabled |-> FALSE, probes |-> 0]

\* AttackerAgent.__init__, lines 182-220
NewAgent(cfg, use_llm, probe) ==
    IF use_llm /\ cfg.enabled
    THEN [NoAgent EXCEPT !.constructed = TRUE,
                         !.llm_assistant = TRUE,
                         !.enabled = LlmAssistantInit(cfg, probe).enabled,
                         !.probes = LlmAssistantInit(cfg, probe).probes]
    ELSE [NoAgent EXCEPT !.constructed = TRUE]

AdvFrame == UNCHANGED <<envVars, orchVars, storeVars>>

\* AttackerAgent(env, use_llm=...): trainer.py line 50 (use_llm defaults to
\* True), pretrain_attacker.py line 173 (use_llm=False)
ConstructAgent ==
    /\ \E a \in AgentIds, use_llm \in BOOLEAN, probe \in ProbeOutcomes :
          /\ ~agents[a].constructed
          /\ \A b \in AgentIds : b < a => agents[b].constructed
          /\ (use_llm /\ llm_config.enabled) \/ probe = "ok"
          /\ agents' = [agents EXCEPT ![a] =
                            NewAgent(llm_config, use_llm, probe)]
    /\ UNCHANGED <<llm_config, prediction, eval_call>>
    /\ AdvFrame

\* the inputs of a predict call that reads none of them but the policy's
\* answers: the greedy action and the one sampled from the distribution
UnreadInputs ==
    [greedy |-> 2, sampled |-> 5, draw |-> 0, prompt_raises |-> FALSE,
     reply |-> NoReply]

\* the inputs of one predict call; those the call does not read are fixed.
\* A consulting call draws random.random() just above consult_probability
\* (no query), or at it and then fails to build the prompt, or queries the
\* service and gets one of the replies
PredictInputs(consult, cfg) ==
    IF ~consult
    THEN {UnreadInputs}
    ELSE {[UnreadInputs EXCEPT !.draw = cfg.consult_probability + 1]}
         \cup {[UnreadInputs EXCEPT !.draw = cfg.consult_probability,
                                    !.prompt_raises = TRUE]}
         \cup {[UnreadInputs EXCEPT !.draw = cfg.consult_probability,
                                    !.reply = y] :
                  y \in IF cfg.provider = "ollama" THEN Replies
                                                   ELSE {NoReply}}

\* AttackerAgent.predict, lines 243-257, called on agent a with the inputs
\* i: the agents and the record of the call afterwards
PredictOutcome(a, deterministic, rollout, i) ==
    LET c == Consults(agents[a], deterministic)
        s == IF c THEN GetSuggestion(agents[a], llm_config, i)
                  ELSE [raised |-> FALSE, value |-> NoSuggestion,
                        queried |-> FALSE]
    IN  [agents |-> [agents EXCEPT ![a] =
            [@ EXCEPT
               !.llm_suggestions_total = IF c THEN @ + 1 ELSE @,
               !.llm_suggestions_used =
                   IF c /\ ~s.raised /\ s.value # NoSuggestion
                   THEN @ + 1 ELSE @]],
         prediction |->
            [seq |-> prediction.seq + 1, agent |-> a,
             deterministic |-> deterministic, rollout |-> rollout,
             greedy |-> i.greedy, sampled |-> i.sampled,
             draw |-> i.draw, reply |-> i.reply,
             prompt_raises |-> i.prompt_raises,
             consulted |-> c, queried |-> s.queried,
             suggestion |-> s.value,
             action |-> IF s.raised THEN 0
                        ELSE IF s.value # NoSuggestion THEN s.value
                        ELSE ModelPredict(deterministic, i),
             status |-> IF s.raised THEN "raised" ELSE "returned"]]

\* agent.predict(observation, deterministic): the parameter defaults to
\* False (line 243)
Predict ==
    /\ prediction.seq < MaxPredicts
    /\ \E a \in AgentIds, deterministic \in BOOLEAN :
          /\ agents[a].constructed
          /\ \E i \in PredictInputs(Consults(agents[a], deterministic),
                                     llm_config) :
             \E o \in {PredictOutcome(a, deterministic, FALSE, i)} :
                /\ agents' = o.agents
                /\ prediction' = o.prediction
    /\ UNCHANGED <<llm_config, eval_call>>
    /\ AdvFrame

\* the predict call of an evaluation rollout, AttackerAgent.evaluate line
\* 276 (and trainer.py line 291): deterministic=True
EvaluatePredict ==
    /\ prediction.seq < MaxPredicts
    /\ \E a \in AgentIds :
          /\ agents[a].constructed
          /\ \E i \in PredictInputs(Consults(agents[a], TRUE), llm_config) :
             \E o \in {PredictOutcome(a, TRUE, TRUE, i)} :
                /\ agents' = o.agents
                /\ prediction' = o.prediction
    /\ UNCHANGED <<llm_config, eval_call>>
    /\ AdvFrame

\* config['llm'] of the process: the default, or a config.json that enables
\* the advisor with the ollama provider or with another one
LlmConfigs ==
    {DefaultLlmConfig,
     [DefaultLlmConfig EXCEPT !.enabled = TRUE],
     [DefaultLlmConfig EXCEPT !.enabled = TRUE, !.provider = "openai"]}

InitAdvisor ==
    /\ EnvIdle
    /\ OrchIdle
    /\ StoreIdle
    /\ llm_config \in LlmConfigs
    /\ agents = [a \in AgentIds |-> NoAgent]
    /\ prediction = NoPrediction
    /\ eval_call = NoEvalCall

NextAdvisor ==
    \/ ConstructAgent
    \/ Predict
    \/ EvaluatePredict

SpecAdvisor == InitAdvisor /\ [][NextAdvisor]_vars

(***************************************************************************)
(*                              Properties                                 *)
(***************************************************************************)
Returned == result.kind = "ok"

IsStep == current_step' = current_step + 1

\* C1, as stated: a step result has truncated = true exactly when
\* current_step = max_steps.
C1_TruncatedOnlyAtMaxSteps ==
    Returned => (result.truncated <=> current_step = max_steps)

\* C1, amended: in either mode a step result has truncated = true exactly
\* when current_step >= max_steps: first at step max_steps, at no earlier
\* step, and again at every step a caller issues after that.
C1_TruncatedFromMaxSteps ==
    Returned => (result.truncated <=> current_step >= max_steps)

C1_Witness ==
    /\ Returned
    /\ result.truncated
    /\ current_step = max_steps

\* C2: in attacker mode privilege_level is one of 0.0, 0.5, 1.0 and no step
\* lowers it between two resets.
C2_PrivilegeNeverLowered ==
    [][/\ attack_state'.privilege_level \in {PrivNone, PrivUser, PrivRoot}
       /\ (mode = "attacker" /\ IsStep)
             => attack_state'.privilege_level >= attack_state.privilege_level
      ]_vars

\* C3: in attacker mode, a step whose detection score exceeds 0.8 has its
\* reward reduced by 50.0, returns terminated = true with info.detected
\* = true, and leaves connection_active false.
C3_DetectionEndsEpisode ==
    (/\ mode = "attacker"
     /\ Returned
     /\ result.info.scored
     /\ result.info.score > Sc(80))
    => /\ result.reward = result.base - Rw(500)
       /\ result.terminated
       /\ result.info.detected
       /\ ~attack_state.connection_active
       /\ ~ssh_client

\* the live variant detected during an exfiltration over an open connection
C3_Witness ==
    /\ variant = "live"
    /\ Returned
    /\ result.action = 7
    /\ result.base >= Rw(120)
    /\ result.info.score > Sc(80)
    /\ result.terminated

\* C4: in attacker mode the detection score of a step is never below the
\* detection score of the step before it in the same episode.
C4_DetectionScoreNeverDecreases ==
    [][(/\ mode = "attacker"
        /\ IsStep
        /\ Returned /\ result.info.scored
        /\ result'.kind = "ok" /\ result'.info.scored)
       => result'.info.score >= result.info.score]_vars

\* C5: in attacker mode, action 5 or 6 issued with privilege_level < 0.5 in
\* an episode that has not terminated yields reward exactly -5.0 (no
\* detection penalty on top) and leaves every attacker state field as it
\* was.
C5_IneligibleBackdoorModify ==
    [][(/\ mode = "attacker"
        /\ IsStep
        /\ ~everTerminated
        /\ attack_state.privilege_level < PrivUser
        /\ result'.kind = "ok"
        /\ result'.action \in {5, 6})
       => /\ result'.reward = Rw(-50)
          /\ ~result'.terminated
          /\ attack_state' = attack_state
          /\ ssh_client' = ssh_client]_vars

\* the live variant at a detection score of exactly 0.5: six failed brute
\* force attempts and two failed events reported by Elasticsearch
C5_Witness ==
    /\ variant = "live"
    /\ Returned
    /\ result.action \in {5, 6}
    /\ attack_state.privilege_level < PrivUser
    /\ result.info.score = Sc(50)
    /\ result.reward = Rw(-50)

\* C6: in an attacker episode made only of wait actions with max_steps =
\* 100, every step yields reward -0.5, adds nothing to detection and has
\* terminated = false; truncated is true first at step 100, where the
\* cumulative reward is -50.0.
C6_WaitOnlyEpisode ==
    (mode = "attacker" /\ Returned)
    => /\ result.action = 9
       /\ result.reward = Rw(-5)
       /\ ~result.terminated
       /\ ~result.info.detected
       /\ attack_state = InitAttackState
       /\ cumulative = Rw(-5) * current_step
       /\ current_step < DefaultMaxSteps => ~result.truncated
       /\ current_step = DefaultMaxSteps
             => (result.truncated /\ cumulative = Rw(-500))

C6_Witness ==
    /\ mode = "attacker"
    /\ Returned
    /\ current_step = DefaultMaxSteps
    /\ result.truncated
    /\ cumulative = Rw(-500)

\* C7: in a defender episode made only of monitor actions with max_steps =
\* 100, every step yields reward +1.0 whether or not an attack is present;
\* the cumulative reward at step 100 is +100.0 and truncated is true there.
C7_MonitorOnlyEpisode ==
    (mode = "defender" /\ Returned)
    => /\ result.action = 0
       /\ result.reward = Rw(10)
       /\ cumulative = Rw(10) * current_step
       /\ current_step < DefaultMaxSteps => ~result.truncated
       /\ current_step = DefaultMaxSteps
             => (result.truncated /\ cumulative = Rw(1000))

\* step 100 of the simulated defender after attacks were present (the
\* counter is past the largest value reset can draw)
C7_Witness ==
    /\ mode = "defender"
    /\ variant = "sim"
    /\ Returned
    /\ current_step = DefaultMaxSteps
    /\ result.truncated
    /\ cumulative = Rw(1000)
    /\ defense_state.suspicious_commands > 10

\* C8: a step with an action index outside 0..9 raises; it never returns an
\* ordinary step result.
C8_OutOfRangeActionRaises ==
    (result.kind \in {"ok", "raise"} /\ result.action \notin 0..9)
    => result.kind = "raise"

\* C9: a failure raised while the action's effect is executed is caught:
\* step returns normally with the fixed penalty reward (-10.0 attacker,
\* -8.0 defender) and info.error set, the fault does not set terminated,
\* and a later step of the same episode is accepted.
C9_FaultAbsorbed ==
    result.info.fault
    => /\ Returned
       /\ result.reward = IF mode = "attacker" THEN Rw(-100) ELSE Rw(-80)
       /\ result.info.error
       /\ ~result.terminated
       /\ ~result.info.detected
       /\ current_step < StepCap => ENABLED Step

\* the enumerate helper of the live attacker failed on an open connection
C9_Witness ==
    /\ result.info.fault
    /\ mode = "attacker"
    /\ Returned
    /\ attack_state.connection_active
    /\ current_step < StepCap

\* C10: in attacker mode, a step whose detection score is in (0.5, 0.8] has
\* its reward reduced by 10 x score and does not set terminated, in the
\* simulated variant as in the live one.
C10_ProportionalPenalty ==
    (/\ mode = "attacker"
     /\ Returned
     /\ result.info.scored
     /\ result.info.score > Sc(50)
     /\ result.info.score <= Sc(80))
    => /\ result.reward = result.base - 2 * result.info.score
       /\ ~result.terminated

\* C11: at every moment at most one training run (an execution of
\* train_self_play) is active, whatever the interleaving of start requests,
\* stop requests and the steps of the run threads.
C11_AtMostOneActiveRun ==
    Cardinality({r \in RunIds : InTraining(r)}) <= 1

\* C12: a run that was active when a stop request was accepted starts no
\* further iteration once it reaches the iteration boundary.
C12_StopObservedAtBoundary ==
    [][\A r \in stop_accepted :
          (Running(r, "loop") /\ runs[r].iteration >= 1)
             => runs'[r].pc # "train_attacker"]_vars


IsOp(op) == outcome'.seq = outcome.seq + 1 /\ outcome'.op = op

StoreUntouched ==
    /\ fs' = fs
    /\ config' = config
    /\ config_file' = config_file

\* C13: promote(n) called when only one of attacker_iter_n and
\* defender_iter_n exists reports the missing checkpoint and leaves both
\* alias files and both configuration pointers as they were.
C13_PromoteMissingLeavesAll ==
    [][\A n \in CheckpointIters :
          (/\ IsOp("promote")
           /\ outcome'.arg = n
           /\ (fs[IterFile("attacker", n)] = NoFile)
                 # (fs[IterFile("defender", n)] = NoFile))
          => /\ outcome'.status =
                   IF fs[IterFile("attacker", n)] = NoFile
                   THEN "missing_attacker" ELSE "missing_defender"
             /\ StoreUntouched]_vars

\* a promotion refused for the missing defender checkpoint while the
\* attacker's exists and both aliases hold an earlier promotion
C13_Witness ==
    /\ outcome.op = "promote"
    /\ outcome.status = "missing_defender"
    /\ fs[IterFile("attacker", outcome.arg)] # NoFile
    /\ fs[IterFile("defender", outcome.arg)] = NoFile
    /\ fs[BestFile("attacker")] \notin {NoFile, outcome.arg}
    /\ fs[BestFile("defender")] \notin {NoFile, outcome.arg}

\* C14: after any promote call, failed midway or not, either both aliases
\* and both configuration pointers are those of iteration n or all of them
\* are as they were before the call.
C14_PromoteAllOrNothing ==
    [][\A n \in CheckpointIters :
          (IsOp("promote") /\ outcome'.arg = n)
          => \/ StoreUntouched
             \/ /\ fs'[BestFile("attacker")] = fs[IterFile("attacker", n)]
                /\ fs'[BestFile("defender")] = fs[IterFile("defender", n)]
                /\ config' = IterConfig(n)
                /\ config_file' = IterConfig(n)]_vars

\* C15: a load from an absent file returns normally with a warning and
\* leaves the agent's policy as it was, for the attacker and the defender.
C15_LoadAbsentKeepsPolicy ==
    [][\A role \in Roles :
          (/\ IsOp("load")
           /\ outcome'.role = role
           /\ \E path \in RoleFiles(role) :
                 path[3] = outcome'.arg /\ fs[path] = NoFile)
          => /\ outcome'.status = "warned"
             /\ model' = model]_vars


\* the phases of one iteration of train_self_play and of one round of
\* train_alternating, in the order of the loop bodies
SelfPlayPhases == <<"train_attacker", "train_defender", "evaluate", "log">>

AlternatingPhases ==
    <<"train_attacker", "evaluate_attacker", "train_defender",
      "evaluate_defender", "log">>

\* the events of run follow the phase list, iteration after iteration, up
\* to an optional last event that is the end of the call
FollowsPhases(run, phases) ==
    \A j \in 1..Len(run.events) :
        LET e == run.events[j]
            w == Len(phases)
        IN  IF e[1] \in {"raised", "final"}
            THEN j = Len(run.events)
            ELSE /\ e[1] = phases[((j - 1) % w) + 1]
                 /\ e[2] = ((j - 1) \div w) + 1

Direct == runs[1]

DirectTrainer == trainers[1]

\* iterations whose loop body has completed
Completed(run) ==
    Cardinality({j \in 1..Len(run.events) : run.events[j][1] = "log"})

\* save_models calls that wrote role's file under the label, in the loop
\* iteration "during" (0: after the loop)
Saves(t, role, label, during) ==
    Cardinality({j \in 1..Len(t.saved) :
        t.saved[j] = [role |-> role, label |-> label, during |-> during]})

\* C16: in every iteration of train_self_play the phases run in the order
\* attacker training, defender training, evaluation, log and optional
\* checkpoint, one at a time, and iteration k+1 starts only after the
\* phases of iteration k are done.
C16_PhasesInOrder ==
    Direct.fn = "self_play"
    => /\ FollowsPhases(Direct, SelfPlayPhases)
       /\ Direct.status = "returned"
             => Len(Direct.events) = 4 * Direct.n + 1

\* a completed self-play call of at least two iterations
C16_Witness ==
    /\ Direct.fn = "self_play"
    /\ Direct.status = "returned"
    /\ Direct.n >= 2
    /\ Len(Direct.events) = 4 * Direct.n + 1

\* C17: train_self_play checkpoints both roles as role_iter_k at exactly
\* the even iterations k of the loop, and a call that runs to completion
\* checkpoints both roles as role_iter_<n_iterations> and persists the
\* history, for every n_iterations >= 0.
C17_CheckpointsAndFinalSave ==
    Direct.fn = "self_play"
    => /\ \A role \in Roles, k \in 1..MaxIterations :
             Saves(DirectTrainer, role, k, k) =
                 IF k % 2 = 0 /\ k <= Completed(Direct) THEN 1 ELSE 0
       /\ \A role \in Roles, k \in 0..MaxIterations :
             Saves(DirectTrainer, role, k, 0) =
                 IF Direct.status = "returned" /\ k = Direct.n
                 THEN 1 ELSE 0
       /\ Len(DirectTrainer.saved) =
             2 * (Completed(Direct) \div 2)
               + (IF Direct.status = "returned" THEN 2 ELSE 0)
       /\ DirectTrainer.history_file.written
             <=> Direct.status = "returned"
       /\ Direct.status = "returned"
             => DirectTrainer.history_file.content
                   = DirectTrainer.training_history

\* a completed call with n_iterations = 1: odd and less than 2
C17_Witness ==
    /\ Direct.fn = "self_play"
    /\ Direct.status = "returned"
    /\ Direct.n = 1
    /\ Saves(DirectTrainer, "attacker", 1, 0) = 1
    /\ Saves(DirectTrainer, "defender", 1, 0) = 1
    /\ DirectTrainer.history_file.written

HistoryArrays ==
    {"iterations", "attacker_rewards", "defender_rewards",
     "attack_success_rates", "detection_rates", "timestamps"}

\* the iteration an entry of the named array belongs to
EntryOf(name, entry) == IF name = "iterations" THEN entry ELSE entry[1]

\* C18: after k completed iterations of a call on a fresh trainer each of
\* the six history arrays has exactly k entries, entry i is the one of
\* iteration i, and no step changes or removes an entry already there.
C18_HistoryAppendOnly ==
    [][\A name \in HistoryArrays :
          LET old == DirectTrainer.training_history[name]
              new == trainers'[1].training_history[name]
          IN  /\ Len(new) = Completed(runs'[1])
              /\ \A i \in 1..Len(new) : EntryOf(name, new[i]) = i
              /\ Len(old) <= Len(new)
              /\ \A i \in 1..Len(old) : new[i] = old[i]]_vars

\* the third iteration is under way with two entries recorded
C18_Witness ==
    /\ Direct.status = "running"
    /\ Direct.iteration = 3
    /\ Direct.pc = "evaluate"
    /\ \A name \in HistoryArrays :
          Len(DirectTrainer.training_history[name]) = 2

\* C19: when a training or evaluation phase raises in iteration k the
\* exception leaves the training call: that event is the last one of the
\* call, no later phase of any iteration runs, and no history entry is
\* appended for iteration k.
C19_PhaseFailureIsFatal ==
    \A j \in 1..Len(Direct.events) :
        Direct.events[j][1] = "raised"
        => /\ j = Len(Direct.events)
           /\ Direct.status = "raised"
           /\ Direct.iteration = Direct.events[j][2]
           /\ Direct.pc \in {"train_attacker", "train_defender", "evaluate",
                             "evaluate_attacker", "evaluate_defender"}
           /\ Len(DirectTrainer.training_history.iterations)
                 = Direct.iteration - 1
           /\ ~DirectTrainer.history_file.written
           /\ ~ENABLED NextTrainer

\* the evaluation of the second self-play iteration raised
C19_Witness ==
    /\ Direct.fn = "self_play"
    /\ Direct.status = "raised"
    /\ Direct.iteration = 2
    /\ Direct.pc = "evaluate"
    /\ Len(DirectTrainer.training_history.iterations) = 1

\* C20: in every round of train_alternating the attacker is trained and
\* evaluated, then the defender is trained and evaluated, one history
\* entry is appended and both roles are checkpointed as role_iter_<round>
\* whatever the round's parity; each agent is trained with its own
\* timestep budget.
C20_AlternatingRounds ==
    Direct.fn = "alternating"
    => /\ FollowsPhases(Direct, AlternatingPhases)
       /\ \A j \in 1..Len(Direct.events) :
             /\ Direct.events[j][1] = "train_attacker"
                   => Direct.events[j][3] = Direct.attacker_timesteps
             /\ Direct.events[j][1] = "train_defender"
                   => Direct.events[j][3] = Direct.defender_timesteps
       /\ Len(DirectTrainer.training_history.iterations) = Completed(Direct)
       /\ \A role \in Roles, k \in 1..MaxIterations :
             Saves(DirectTrainer, role, k, k) =
                 IF k <= Completed(Direct) THEN 1 ELSE 0
       /\ Len(DirectTrainer.saved) = 2 * Completed(Direct)
       /\ Direct.status = "returned" => Completed(Direct) = Direct.n

\* three rounds completed with different budgets for the two agents
C20_Witness ==
    /\ Direct.fn = "alternating"
    /\ Direct.status = "returned"
    /\ Direct.n = 3
    /\ Direct.attacker_timesteps # Direct.defender_timesteps
    /\ Saves(DirectTrainer, "attacker", 3, 3) = 1
    /\ Saves(DirectTrainer, "defender", 3, 3) = 1

\* the answer text holds no digit that stands alone: every digit has a
\* letter or another digit next to it
NoStandaloneDigit(text) ==
    \A k \in 1..Len(text) :
        text[k] \in Digits
        => \/ (k > 1 /\ text[k - 1] \in WordChars)
           \/ (k < Len(text) /\ text[k + 1] \in WordChars)

\* the advisor of the call p was disabled, or it was queried and was
\* unreachable, timed out, answered with a status other than 200 or with a
\* text that holds no standalone digit
AdvisorUnavailable(p) ==
    \/ ~agents[p.agent].llm_assistant
    \/ ~agents[p.agent].enabled
    \/ /\ p.queried
       /\ \/ p.reply.kind \in {"unreachable", "timeout", "status"}
          \/ p.reply.kind = "text" /\ NoStandaloneDigit(p.reply.text)

\* C21: when the advisor is disabled, unreachable, times out, answers with
\* a non-200 status or with a text that has no standalone digit,
\* get_suggestion returns no suggestion and predict returns the policy's
\* own action; no predict call ends with an exception of the advisor.
C21_AdvisorFailureFallsBack ==
    prediction.seq > 0
    => /\ prediction.status = "returned"
       /\ AdvisorUnavailable(prediction)
             => /\ prediction.suggestion = NoSuggestion
                /\ prediction.action =
                      IF prediction.deterministic THEN prediction.greedy
                                                  ELSE prediction.sampled

\* the service answered "77": digits, none of them standalone
C21_Witness ==
    /\ prediction.queried
    /\ prediction.reply = [kind |-> "text", text |-> <<"7", "7">>]
    /\ prediction.suggestion = NoSuggestion
    /\ ~prediction.deterministic
    /\ prediction.action = prediction.sampled
    /\ prediction.status = "returned"

\* C22: a deterministic predict call, and so the predict call of every
\* evaluation rollout, does not consult the advisor, leaves both
\* suggestion counters as they were and returns the policy's greedy action.
C22_DeterministicSkipsAdvisor ==
    [][/\ prediction'.rollout => prediction'.deterministic
       /\ (prediction'.seq = prediction.seq + 1 /\ prediction'.deterministic)
             => /\ ~prediction'.consulted
                /\ ~prediction'.queried
                /\ prediction'.suggestion = NoSuggestion
                /\ prediction'.action = prediction'.greedy
                /\ prediction'.status = "returned"
                /\ agents' = agents]_vars

\* a rollout step of an agent whose advisor is enabled and was consulted by
\* an earlier non-deterministic call
C22_Witness ==
    /\ prediction.rollout
    /\ agents[prediction.agent].llm_assistant
    /\ agents[prediction.agent].enabled
    /\ agents[prediction.agent].llm_suggestions_total = 1
    /\ agents[prediction.agent].llm_suggestions_used = 1
    /\ prediction.action = prediction.greedy

\* _test_connection calls made in the process so far
RECURSIVE ProbeCount(_)
ProbeCount(n) == IF n = 0 THEN 0 ELSE agents[n].probes + ProbeCount(n - 1)

\* an advisor that a failed probe disabled
Disabled(a) == agents[a].llm_assistant /\ ~agents[a].enabled

\* C23: advisor connectivity is probed once in the process, at
\* construction, and once a failed probe has disabled the advisor no later
\* operation of the process brings an enabled advisor back.
C23_ProbedOnceDisabledForGood ==
    [][/\ ProbeCount(MaxAgents)' <= 1
       /\ (\E a \in AgentIds : Disabled(a))
             => \A b \in AgentIds : agents'[b].enabled => agents[b].enabled
      ]_vars

\* C24: reset, after any sequence of steps, sets current_step to 0 and
\* every state field of the mode to its initial value, and returns the
\* info {step: 0, mode}, in both variants.
C24_ResetClearsAndReports ==
    result.kind = "reset"
    => /\ current_step = 0
       /\ mode = "attacker" => attack_state = InitAttackState
       /\ mode = "defender"
             => /\ defense_state.ips_blocked = 0
                /\ defense_state.attacks_detected = 0
                /\ defense_state.alerts_triggered = 0
                /\ defense_state.false_positives = 0
                /\ defense_state.attacks_mitigated = 0
       /\ result.reset_info = {<<"step", 0>>, <<"mode", mode>>}

\* C25: in attacker mode, in an episode that has not terminated, each of
\* the actions 1, 2, 3, 7 and 8 issued while connection_active is false
\* yields reward exactly -5.0 and changes no attacker state field.
C25_NotConnectedPenalty ==
    [][(/\ mode = "attacker"
        /\ IsStep
        /\ ~everTerminated
        /\ ~attack_state.connection_active
        /\ result'.kind = "ok"
        /\ result'.action \in {1, 2, 3, 7, 8})
       => /\ result'.reward = Rw(-50)
          /\ ~result'.terminated
          /\ ~result'.info.detected
          /\ attack_state' = attack_state
          /\ ssh_client' = ssh_client]_vars

\* an exfiltration attempted without a connection after eight failed brute
\* force attempts: the simulated detection score stands at exactly 0.8
C25_Witness ==
    /\ variant = "sim"
    /\ Returned
    /\ result.action = 7
    /\ ~attack_state.connection_active
    /\ attack_state.failed_attempts = 8
    /\ attack_state.detection_score = Sc(80)
    /\ result.reward = Rw(-50)
    /\ ~everTerminated

\* the step just taken was action a of the attacker, returned without a
\* fault and without the episode being ended by detection
AttackerActed(a) ==
    /\ mode = "attacker"
    /\ IsStep
    /\ result'.kind = "ok"
    /\ result'.action = a
    /\ ~result'.info.fault
    /\ ~result'.info.detected

\* C26: action 4 (privilege escalation) needs connection_active; on success
\* its reward is +30.0 and privilege_level becomes 1.0; on failure or when
\* ineligible its reward is -4.0 and no attacker state field changes; this
\* holds in both variants.  The reward is the one the action sets, before
\* any detection penalty.
C26_PrivilegeEscalation ==
    [][AttackerActed(4)
       => \/ /\ attack_state.connection_active
             /\ result'.base = Rw(300)
             /\ attack_state'.privilege_level = PrivRoot
          \/ /\ result'.base = Rw(-40)
             /\ attack_state' = attack_state]_vars

\* C27: action 7 (exfiltrate) with an active connection yields reward
\* 12.0 + 0.1 x files and raises files_accessed by files, the number of
\* files exfiltrated in the step, in both variants.  The reward is the one
\* the action sets, before any detection penalty.
C27_ExfiltrateReward ==
    [][(AttackerActed(7) /\ attack_state.connection_active)
       => /\ attack_state'.files_accessed >= attack_state.files_accessed
          /\ result'.base =
                Rw(120) + 6 * (attack_state'.files_accessed
                               - attack_state.files_accessed)]_vars

\* the step just taken was action a of the defender, returned without a
\* fault
DefenderActed(a) ==
    /\ mode = "defender"
    /\ IsStep
    /\ result'.kind = "ok"
    /\ result'.action = a
    /\ ~result'.info.fault

\* C28: the bonus added to a defender step's reward is 3.0 for each attack
\* detected in that step, whatever was detected or mitigated in earlier
\* steps of the episode.
C28_BonusCountsThisStepOnly ==
    [][\A a \in 0..9 :
          (DefenderActed(a) /\ variant = "live")
          => result'.reward - result'.base =
                Rw(30) * (defense_state'.attacks_mitigated
                          - defense_state.attacks_mitigated)]_vars

\* rate-limit, temporary block, permanent block, alert, isolate
Interventions == {1, 2, 3, 6, 7}

\* the penalty of an intervention made without an attack
FalsePositivePenalty(a) ==
    CASE a = 1 -> Rw(-10)
      [] a = 2 -> Rw(-20)
      [] a = 3 -> Rw(-50)
      [] a = 6 -> Rw(-40)
      [] a = 7 -> Rw(-100)

\* C29: in defender mode an intervention taken in a step where no attack
\* is present yields the action's fixed negative reward and raises the
\* false-positive counter by one; no other step changes the counter.
C29_FalsePositiveCounted ==
    [][\A a \in 0..9 :
          DefenderActed(a)
          => IF a \in Interventions /\ ~result'.info.attack
             THEN /\ result'.reward = FalsePositivePenalty(a)
                  /\ defense_state'.false_positives
                        = defense_state.false_positives + 1
             ELSE defense_state'.false_positives
                     = defense_state.false_positives]_vars

\* the statements of a training call that reset and step the simulator of
\* the role: model.learn of the role's train phase, and the rollouts of the
\* evaluation (trainer.py lines 93-98, 102-107, 111-112)
PhasesDriving(role) ==
    IF role = "attacker"
    THEN {"train_attacker", "evaluate", "evaluate_attacker"}
    ELSE {"train_defender", "evaluate", "evaluate_defender"}

\* the thread of run r is inside a phase on the role's simulator of
\* trainer t
RunDrives(r, t, role) ==
    /\ runs[r].status = "running"
    /\ runs[r].trainer = t
    /\ runs[r].pc \in PhasesDriving(role)

\* the thread serving the evaluate request is inside the evaluation of the
\* role's agent of trainer t
RequestDrives(t, role) ==
    /\ evaluation.pc = role
    /\ evaluation.trainer = t

\* C30: no simulator instance is reset or stepped by two threads at the
\* same time; in particular an evaluate request served during a training
\* run does not drive a simulator of the run while the run's own training
\* or evaluation phase drives it.
C30_OneThreadPerSimulator ==
    \A t \in RunIds, role \in Roles :
        Cardinality({r \in RunIds : RunDrives(r, t, role)})
            + (IF RequestDrives(t, role) THEN 1 ELSE 0) <= 1


\* C31: after a successful promote(n) the path load_best resolves for each
\* role is the <role>_best alias file, so a later rewrite of
\* <role>_iter_<n> by a training run does not change what load_best loads.
C31_LoadBestResolvesAlias ==
    (outcome.op = "promote" /\ outcome.status = "ok")
        => /\ config.attacker_best = BestFile("attacker")
           /\ config.defender_best = BestFile("defender")


(***************************************************************************)
(* _get_observation (sim lines 266-288, live lines 428-484) and the        *)
(* bounds of observation_space.  A vector has the eight components in the  *)
(* order of the code; privilege_level is in tenths and detection_score in  *)
(* units of 1/300, as in the state.                                        *)
(***************************************************************************)
\* high of the Box (sim lines 29-33 and 46-50, live lines 85-89 and
\* 126-130); low is zero in every component
ObservationHigh(m, steps) ==
    IF m = "attacker"
    THEN <<1, 100, 100, PrivRoot, Sc(100), steps, 50, 20>>
    ELSE <<100, 1000, 1000, 100, 3600, 1, 50, 50>>

\* the attacker's vector; score is the fifth component as the variant
\* computes it.  session_duration is current_step as it stands
AttackerObservation(st, step, score) ==
    <<IF st.connection_active THEN 1 ELSE 0,
      Min(st.commands_executed, 100),
      Min(st.files_accessed, 100),
      st.privilege_level,
      score,
      step,
      Min(st.failed_attempts, 50),
      Min(st.successful_exploits, 20)>>

\* the simulated defender's vector (lines 279-288): three clamped counters
\* and five random draws, taken at the ends of their ranges
DefenderObservationsSim(ds) ==
    {<<Min(ds.active_connections, 100), Min(ds.failed_logins, 1000),
       Min(ds.suspicious_commands, 1000), ips, dur, scan, mal, esc>> :
        ips \in {1, 10}, dur \in {10, 300}, scan \in {0, 1},
        mal \in {0, 5}, esc \in {0, 3}}

\* _parse_defender_observation (lines 482-548): every count taken from the
\* Elasticsearch hits is clamped; the counts are drawn below and above the
\* clamp
DefenderObservationsLive ==
    {<<Min(s, 100), Min(f, 1000), Min(c, 1000), Min(i, 100),
       Min(dur, 3600), scan, Min(mal, 50), Min(esc, 50)>> :
        s \in {0, 101}, f \in {0, 1001}, c \in {0, 1001}, i \in {0, 101},
        dur \in {0, 10000}, scan \in {0, 1}, mal \in {0, 51},
        esc \in {0, 51}}

\* _get_default_observation (line 550-552)
DefaultObservation == <<0, 0, 0, 0, 0, 0, 0, 0>>

\* the vectors _get_observation can return in the current state
GetObservation ==
    IF variant = "sim"
    THEN IF mode = "attacker"
         THEN {AttackerObservation(attack_state, current_step,
                                   Min(attack_state.detection_score,
                                       Sc(100)))}
         ELSE DefenderObservationsSim(defense_state)
    ELSE {DefaultObservation}
         \cup IF mode = "attacker"
              THEN {AttackerObservation(
                        attack_state, current_step,
                        CalculateDetectionScore(attack_state, fc)) :
                    fc \in FailedCounts}
              ELSE DefenderObservationsLive

WithinSpace(obs) ==
    \A i \in 1..8 :
        /\ 0 <= obs[i]
        /\ obs[i] <= ObservationHigh(mode, max_steps)[i]

\* C32: every observation returned by reset or step lies component-wise
\* within the bounds of the mode's observation space, after any sequence of
\* step calls.
C32_ObservationWithinSpace ==
    result.kind \in {"reset", "ok"}
        => \A obs \in GetObservation : WithinSpace(obs)


\* C33: in every reachable attacker state of either variant,
\* connection_active implies privilege_level >= 0.5: a connection is opened
\* together with user privilege, and only reset clears the privilege.
C33_ConnectionImpliesPrivilege ==
    (mode = "attacker" /\ attack_state.connection_active)
        => attack_state.privilege_level >= PrivUser

\* a later brute force succeeded on an episode that already held root
C33_Witness ==
    /\ mode = "attacker"
    /\ result.kind = "ok"
    /\ result.action = 0
    /\ attack_state.connection_active
    /\ attack_state.successful_exploits >= 3
    /\ attack_state.privilege_level = PrivUser


\* C34: in the simulated attacker mode termination is absorbing until
\* reset: a step issued after a step returned terminated=true is not
\* rejected, and it returns terminated=true with the -50.0 detection penalty
\* applied and connection_active false.
C34_TerminationAbsorbing ==
    [][(variant = "sim" /\ mode = "attacker"
          /\ (everTerminated \/ current_step >= max_steps))
         => /\ (Building /\ current_step < DeepStepCap) => ENABLED BuildUp
            /\ IsStep =>
                 /\ result'.kind = "raise"
                      <=> GetActionNameRaises(variant, result'.action)
                 /\ (everTerminated /\ result'.kind = "ok") =>
                      /\ result'.terminated
                      /\ result'.info.detected
                      /\ result'.reward = result'.base - Rw(500)
                      /\ ~attack_state'.connection_active
                      /\ everTerminated']_vars

\* a brute force issued after the detection succeeded: the connection it
\* opened is closed again by the penalty of the same step
C34_Witness ==
    /\ variant = "sim"
    /\ mode = "attacker"
    /\ result.kind = "ok"
    /\ result.action = 0
    /\ result.base = Rw(200)
    /\ result.terminated
    /\ attack_state.detection_score >= Sc(100)
    /\ ~attack_state.connection_active


\* the thread of some run leaves train() in this step
RunEnds == \E r \in RunIds : runs[r].pc # "ended" /\ runs'[r].pc = "ended"

\* every thread that was started has left train()
NoThreadAlive == \A r \in RunIds : runs[r].thread => runs[r].pc = "ended"

\* a start request is answered with the refusal in this step
StartRefused ==
    /\ response' = "start_rejected"
    /\ UNCHANGED <<runs, evaluation, stop_accepted, is_training>>

\* C35: whenever the background run ends, by completing its iterations or
\* by an exception escaping a phase, is_training becomes false, and a start
\* request made once no run is left is accepted.
C35_RunEndClearsIsTraining ==
    [][/\ RunEnds => ~is_training'
       /\ NoThreadAlive' => ~is_training'
       /\ StartRefused => is_training]_vars

\* the first run ended with an exception in a phase; the flag is clear and
\* the next start request can be served
C35_Witness ==
    /\ runs[1].thread
    /\ runs[1].status = "raised"
    /\ runs[1].pc = "ended"
    /\ runs[2].status = "none"
    /\ ~is_training


(***************************************************************************)
(* AttackerAgent.evaluate (attacker_agent.py lines 259-313) and            *)
(* DefenderAgent.evaluate (defender_agent.py lines 116-170), statement by  *)
(* statement, on an environment no other thread drives.  The agent's model *)
(* is a deterministic policy (predict is called with deterministic=True):  *)
(* "any" stands for every policy and is explored on short episodes; the    *)
(* two scripted policies are explored on episodes of the default length,   *)
(* which is what the success threshold of 300 needs.                       *)
(***************************************************************************)
\* n_episodes explored
MaxEpisodes == 2

\* episode_reward > 300, line 282
SuccessThreshold == Rw(3000)

\* the scripted policies are evaluated on the simulator, which is the
\* environment SelfPlayTrainer constructs (trainer.py lines 46-47)
Policies(v, m) ==
    IF v = "sim" /\ m = "attacker"
    THEN {"any", "intrude", "hammer"}
    ELSE {"any"}

\* max_steps of the environment the policy is evaluated on
PolicySteps(policy) == IF policy = "any" THEN MaxSteps ELSE DefaultMaxSteps

\* self.predict(obs, deterministic=True), line 276 (defender line 134): the
\* actions the policy can answer with on observation obs.  "intrude" forces
\* the connection and then enumerates, "hammer" only forces
PolicyAction(policy, obs) ==
    CASE policy = "intrude" -> {IF obs[1] = 1 THEN 1 ELSE 0}
      [] policy = "hammer" -> {0}
      [] OTHER -> 0..9

\* the actions the policy can answer with in the current state, over the
\* observations the environment can have returned
PolicyActions(policy) ==
    UNION {PolicyAction(policy, obs) : obs \in GetObservation}

\* a loop that stops on termination only
LoopContinuesUntilDone == ~result.terminated

\* while not (done or truncated), line 275 (defender line 133): both are
\* False after reset and are what the last step returned afterwards
LoopContinues == ~(result.terminated \/ result.truncated)

\* counters that are incremented without leaving the loop
TrackMetricsNoBreak(ec, m, episode_reward, detected) ==
    IF m = "attacker"
    THEN IF episode_reward > SuccessThreshold
         THEN [ec EXCEPT !.success_count = @ + 1]
         ELSE IF detected
              THEN [ec EXCEPT !.detection_count = @ + 1]
              ELSE ec
    ELSE ec

\* attacker_agent.py lines 281-288: success is tested first, and either
\* count leaves the loop.  The defender's loop has no break
TrackMetrics(ec, m, episode_reward, detected) ==
    IF m = "attacker"
    THEN IF episode_reward > SuccessThreshold
         THEN [ec EXCEPT !.success_count = @ + 1, !.pc = "append"]
         ELSE IF detected
              THEN [ec EXCEPT !.detection_count = @ + 1, !.pc = "append"]
              ELSE ec
    ELSE ec

EvalCallFrame ==
    UNCHANGED <<orchVars, storeVars, llm_config, agents, prediction>>

\* for episode in range(n_episodes): obs, _ = self.env.reset() and the
\* locals of the episode (lines 268-273)
EvaluateEpisode ==
    /\ eval_call.pc = "for"
    /\ eval_call.episodes < eval_call.n_episodes
    /\ \E r \in ResetDraws(variant, mode) : ResetEnv(r)
    /\ eval_call' = [eval_call EXCEPT !.pc = "while", !.resets = @ + 1,
                                      !.episode_length = 0]
    /\ EvalCallFrame

\* one pass of the loop body (lines 276-288): predict, step, the sums and
\* the attacker's counters.  cumulative is the attacker's episode_reward,
\* which line 282 reads; the defender's sums (lines 136-142) are only
\* reported and their values are not tracked
EvaluateStep ==
    /\ eval_call.pc = "while"
    /\ LoopContinues
    /\ \E a \in PolicyActions(eval_call.policy) :
       \E r \in StepDraws(variant, mode, a) :
          /\ StepEnv(a, r)
          /\ cumulative' = IF mode = "attacker"
                           THEN cumulative + result'.reward
                           ELSE cumulative
          /\ eval_call' =
                TrackMetrics([eval_call EXCEPT !.episode_length = @ + 1],
                             mode, cumulative', result'.info.detected)
    /\ EvalCallFrame

\* the loop was left: episode_rewards.append, episode_lengths.append
\* (lines 290-293)
EvaluateAppend ==
    /\ \/ eval_call.pc = "append"
       \/ eval_call.pc = "while" /\ ~LoopContinues
    /\ eval_call' = [eval_call EXCEPT !.pc = "for", !.episodes = @ + 1]
    /\ UNCHANGED envVars
    /\ EvalCallFrame

\* the for loop is exhausted: the results are computed and returned (lines
\* 295-313)
EvaluateReturn ==
    /\ eval_call.pc = "for"
    /\ eval_call.episodes >= eval_call.n_episodes
    /\ eval_call' = [eval_call EXCEPT !.pc = "returned"]
    /\ UNCHANGED envVars
    /\ EvalCallFrame

\* evaluate(n_episodes) is entered on a freshly constructed environment
InitEvaluate ==
    /\ variant \in Variants
    /\ mode \in Modes
    /\ \E policy \in Policies(variant, mode), n \in 1..MaxEpisodes :
          /\ policy # "any" => n = MaxEpisodes
          /\ max_steps = PolicySteps(policy)
          /\ eval_call = [NoEvalCall EXCEPT !.pc = "for", !.policy = policy,
                                            !.n_episodes = n]
    /\ current_step = 0
    /\ attack_state = InitAttackState
    /\ ssh_client = FALSE
    /\ defense_state = ZeroDefenseState
    /\ result = NoResult
    /\ everTerminated = FALSE
    /\ cumulative = 0
    /\ OrchIdle
    /\ StoreIdle
    /\ llm_config = DefaultLlmConfig
    /\ agents = [a \in AgentIds |-> NoAgent]
    /\ prediction = NoPrediction

NextEvaluate ==
    \/ EvaluateEpisode
    \/ EvaluateStep
    \/ EvaluateAppend
    \/ EvaluateReturn

\* the call runs in one thread, which takes its next statement whenever it
\* has one
SpecEvaluate == InitEvaluate /\ [][NextEvaluate]_vars /\ WF_vars(NextEvaluate)


\* C36: every evaluation rollout of either agent terminates: each
\* episode's loop exits after at most max_steps calls to step, and
\* evaluate(n_episodes) runs exactly n_episodes episodes, each starting with
\* a reset.
C36_EvaluationTerminates ==
    /\ [](/\ eval_call.episode_length <= max_steps
          /\ eval_call.pc = "while"
               => /\ eval_call.episode_length = current_step
                  /\ eval_call.resets = eval_call.episodes + 1
          /\ eval_call.pc \in {"for", "returned"}
               => eval_call.resets = eval_call.episodes
          /\ eval_call.pc = "returned"
               => eval_call.episodes = eval_call.n_episodes)
    /\ <>(eval_call.pc = "returned")

\* a call of two episodes returned, the second of which ran to truncation
C36_Witness ==
    /\ eval_call.pc = "returned"
    /\ eval_call.n_episodes = 2
    /\ eval_call.resets = 2
    /\ eval_call.episode_length = max_steps
    /\ result.truncated
    /\ ~result.terminated


\* the evaluate call takes a pass of its loop body in this step
LoopPass == eval_call.pc = "while" /\ eval_call'.resets = eval_call.resets
                /\ eval_call'.episode_length = eval_call.episode_length + 1

\* C37: in AttackerAgent.evaluate each episode adds at most one count in
\* total to success_count and detection_count: the rollout stops at the
\* first step where the cumulative reward exceeds 300 or info.detected is
\* set, success being tested first; so success_rate + detection_rate <= 1
\* and each rate is in [0, 1].
C37_OneCountPerEpisode ==
    [][mode = "attacker" =>
         /\ eval_call'.success_count + eval_call'.detection_count
              <= eval_call'.episodes
                   + (IF eval_call'.pc = "append" THEN 1 ELSE 0)
         /\ eval_call'.success_count + eval_call'.detection_count
              <= eval_call'.n_episodes
         /\ LoopPass =>
              /\ cumulative' > SuccessThreshold
                   => /\ eval_call'.success_count
                           = eval_call.success_count + 1
                      /\ eval_call'.detection_count
                           = eval_call.detection_count
                      /\ eval_call'.pc = "append"
              /\ (cumulative' <= SuccessThreshold
                    /\ result'.info.detected)
                   => /\ eval_call'.detection_count
                           = eval_call.detection_count + 1
                      /\ eval_call'.success_count
                           = eval_call.success_count
                      /\ eval_call'.pc = "append"
              /\ (cumulative' <= SuccessThreshold
                    /\ ~result'.info.detected)
                   => /\ eval_call'.success_count
                           = eval_call.success_count
                      /\ eval_call'.detection_count
                           = eval_call.detection_count
                      /\ eval_call'.pc = "while"]_vars

\* a call of two episodes returned with one success and one detection
C37_Witness ==
    /\ mode = "attacker"
    /\ eval_call.pc = "returned"
    /\ eval_call.n_episodes = 2
    /\ eval_call.success_count = 1
    /\ eval_call.detection_count = 1


\* ---------------------------------------------------------------------
\* _log_iteration statement by statement, and the read-only requests that
\* can be served between two of its statements
\* ---------------------------------------------------------------------

\* trainer.py lines 178-183: the six append statements in program order
HistoryOrder ==
    <<"iterations", "attacker_rewards", "defender_rewards",
      "attack_success_rates", "detection_rates", "timestamps">>

\* the value that the k-th append statement of _log_iteration appends
HistoryEntry(k, run) ==
    CASE k = 1 -> run.iteration
      [] k = 2 -> run.attacker_results.mean_reward
      [] k = 3 -> run.defender_results.mean_reward
      [] k = 4 -> run.attacker_results.success_rate
      [] k = 5 -> run.attacker_results.detection_rate
      [] OTHER -> <<run.iteration, 0>>

\* the trainer after the k-th append statement of _log_iteration alone
LogAppendOne(t, k, run) ==
    [t EXCEPT !.training_history[HistoryOrder[k]] =
                  Append(@, HistoryEntry(k, run))]

\* one statement of _log_iteration in the training thread; the statement
\* after the last append is the checkpoint and plot test of the caller,
\* taken with it
LogAppend ==
    \E r \in RunIds :
        /\ Running(r, "log")
        /\ \E k \in {runs[r].logged + 1} :
             \E t \in {LogAppendOne(trainers[runs[r].trainer], k, runs[r])} :
               IF k < Len(HistoryOrder)
               THEN /\ trainers' = [trainers EXCEPT ![runs[r].trainer] = t]
                    /\ runs' = [runs EXCEPT ![r].logged = k]
               ELSE /\ trainers' = [trainers EXCEPT ![runs[r].trainer] =
                                       AfterLog(t, runs[r])]
                    /\ runs' = [runs EXCEPT
                                  ![r] = PhaseDone([@ EXCEPT !.logged = 0])]
        /\ UNCHANGED <<is_training, trainer, response, stop_accepted>>
        /\ OrchFrame

\* the lengths of the arrays of a history dict as a reply carries them
HistoryLengths(history) ==
    [name \in DOMAIN history |-> Len(history[name])]

\* history[name][-n:] of get_live_metrics: the last n entries, and the
\* whole list when n is 0
LastN(list, n) ==
    IF n = 0 \/ n >= Len(list)
    THEN list
    ELSE SubSeq(list, Len(list) - n + 1, Len(list))

\* the number of points a live-metrics reply shows (api.py line 117)
LivePoints == 10

\* api.py lines 116-125: n from the iterations array, then five slices
LiveMetrics(history) ==
    LET n == Min(LivePoints, Len(history.iterations))
    IN  [name \in {"iterations", "attacker_rewards", "defender_rewards",
                   "attack_success_rates", "detection_rates"} |->
            LastN(history[name], n)]

QueryFrame ==
    /\ UNCHANGED <<is_training, trainer, runs, trainers, stop_accepted,
                   evaluation>>
    /\ UNCHANGED <<envVars, storeVars, advVars>>

\* GET /api/rl/status: the history dict of the global trainer, or {}
GetStatus ==
    /\ query' = [kind |-> "status",
                 lengths |-> IF trainer # 0
                             THEN HistoryLengths(
                                      trainers[trainer].training_history)
                             ELSE <<>>]
    /\ response' = "status"
    /\ QueryFrame

\* GET /api/rl/history: 404 without a trainer, else the history dict
GetTrainingHistory ==
    /\ IF trainer = 0
       THEN /\ query' = [kind |-> "history", lengths |-> <<>>]
            /\ response' = "history_not_found"
       ELSE /\ query' = [kind |-> "history",
                         lengths |-> HistoryLengths(
                                         trainers[trainer].training_history)]
            /\ response' = "history"
    /\ QueryFrame

\* GET /api/rl/metrics/live: 404 without a trainer, else the last points
GetLiveMetrics ==
    /\ IF trainer = 0
       THEN /\ query' = [kind |-> "live", lengths |-> <<>>]
            /\ response' = "live_not_found"
       ELSE /\ query' = [kind |-> "live",
                         lengths |-> HistoryLengths(LiveMetrics(
                                         trainers[trainer].training_history))]
            /\ response' = "live"
    /\ QueryFrame

\* the client posts one training request and then only reads
StartOnce ==
    /\ \A r \in RunIds : runs[r].status = "none"
    /\ StartTraining

NextHistory ==
    \/ StartOnce
    \/ ThreadBegin
    \/ LoopHead
    \/ TrainAttacker
    \/ TrainDefender
    \/ Evaluate
    \/ LogAppend
    \/ Finalize
    \/ ThreadEnd
    \/ GetStatus
    \/ GetTrainingHistory
    \/ GetLiveMetrics

SpecHistory == InitApi /\ [][NextHistory]_vars

\* C38: a status, history or live-metrics reply served while a run is
\* inside _log_iteration carries history arrays of equal lengths.
C38_QuerySeesEqualLengths ==
    \A a, b \in DOMAIN query.lengths : query.lengths[a] = query.lengths[b]

\* the same, for a reply served when no run is between two appends (used
\* to see that the unequal lengths come from the interleaving alone)
C38_EqualLengthsOutsideLogging ==
    [][((\A r \in RunIds : runs[r].logged = 0) /\ query' # query) =>
         \A a, b \in DOMAIN query'.lengths :
             query'.lengths[a] = query'.lengths[b]]_vars


\* the two pointers of a configuration name the same iteration's
\* checkpoints, or both name the alias files
PointersPaired(cfg) ==
    \/ /\ cfg.attacker_best = BestFile("attacker")
       /\ cfg.defender_best = BestFile("defender")
    \/ \E k \in CheckpointIters :
          /\ cfg.attacker_best = IterFile("attacker", k)
          /\ cfg.defender_best = IterFile("defender", k)

\* C39: after any sequence of promote calls, accepted or rejected, the
\* attacker_best and defender_best pointers of the configuration (the
\* object and the file) name the same iteration or both hold their
\* initial values, and no call moves one pointer without moving both to
\* the iteration it was given.
C39_PointersMoveTogether ==
    /\ [](PointersPaired(config) /\ PointersPaired(config_file))
    /\ [][/\ config' # config =>
               /\ outcome'.op = "promote"
               /\ config'.attacker_best =
                      IterFile("attacker", outcome'.arg)
               /\ config'.defender_best =
                      IterFile("defender", outcome'.arg)
          /\ config_file' # config_file => config_file' = config']_vars

\* a second or later promote call was accepted and moved both pointers
\* away from the values they held
C39_Witness ==
    /\ outcome.op = "promote"
    /\ outcome.status = "ok"
    /\ outcome.seq >= 2
    /\ config = config_file
    /\ config.attacker_best = IterFile("attacker", MaxCheckpoint)
    /\ config.defender_best = IterFile("defender", MaxCheckpoint)

====
